---- MODULE Spec2Model ----
(***************************************************************************)
(* A model of the task orchestration core of OpenList: the upload cache    *)
(* and the Quark/UC resumable upload (Put), the task persistence layer     *)
(* (legacy snapshot row + task_records index), the HTTP control plane of   *)
(* the task routes, and the per-kind task manager the routes drive.        *)
(*                                                                         *)
(* Options are sequences of length at most one: None is <<>>, Some(x) is   *)
(* <<x>>.  A Go nil pointer, a NULL column and a missing file are None.    *)
(***************************************************************************)
EXTENDS Integers, Sequences, FiniteSets, TLC

VARIABLES
    \* ---- upload cache and Put (drivers/quark_uc, internal/fs/cache)
    uc,          \* the *UploadCache bound to the context: None, or Some(cache)
    files,       \* the sidecar files on disk: metadata path -> None | Some(json)
    stream,      \* the FileStreamer handed to Put
    put,         \* the locals of the running Put and how far it got
    ctxCanceled, \* whether the context's cancellation token has fired
    \* ---- persistence layer (internal/db/tasks.go)
    taskItems,   \* table task_items: key -> persist_data, for the rows that exist
    taskRecords, \* table task_records: a set of rows, primary key (task_id, type)
    ticks,       \* calls of a combined writer between its snapshot and index writes
    reader,      \* the reader function held by a caller: None or Some(closure)
    signal,      \* whether conf.StoragesLoadSignal has fired
    lastOp,      \* history: the call that returned last
    \* ---- task manager of one kind (tache.Manager, internal/bootstrap/task.go)
    mgr,         \* the manager: its tasks, pending queue, workers, retry counts
    setting,     \* the kind's thread-number setting item: None or Some(number)
    conf,        \* conf.Conf.Tasks.<Kind>: Workers and MaxRetry
    \* ---- HTTP control plane (server/handles/task.go)
    req,         \* the request being served: None or Some(request)
    resp         \* the response written for it: None or Some(response)

putVars == <<uc, files, stream, put, ctxCanceled>>
dbVars == <<taskItems, taskRecords, ticks, reader, signal, lastOp>>

mgrVars == <<mgr, setting, conf>>
httpVars == <<req, resp>>

vars == <<putVars, dbVars, mgrVars, httpVars>>

notPut == <<dbVars, mgrVars, httpVars>>
notDb == <<putVars, mgrVars, httpVars>>

None == <<>>
Some(x) == <<x>>
IsSome(o) == o # <<>>
Get(o) == o[1]

(***************************************************************************)
(* Bounds of the model.                                                    *)
(***************************************************************************)
MaxSize == 3        \* stream sizes 0..MaxSize (bytes)
MaxPartSize == 2    \* part sizes 1..MaxPartSize announced by the backend
MaxAttempts == 2    \* Put attempts on one upload cache
MaxTicks == 2       \* calls of one kind's or another's writer in flight at once
MaxWorkers == 2     \* the configured worker count and the largest thread-number setting
MaxRetryConf == 1   \* the largest configured MaxRetry

(***************************************************************************)
(* Paths.  normalizePath is filepath.Abs: a relative path is joined to the *)
(* working directory (here /w), an absolute path is returned cleaned.      *)
(***************************************************************************)
RawPaths == {"t1", "/w/t1", "/w/./t1", "/w/c1", "c1"}

normalizePath(path) ==
    CASE path = "t1"      -> "/w/t1"
      [] path = ""        -> "/w"
      [] path = "."       -> "/w"
      [] path = "/w/./t1" -> "/w/t1"
      [] path = "c1"      -> "/w/c1"
      [] OTHER            -> path

(***************************************************************************)
(* Hash strings.  Put trusts a hash of the stream only when its length is  *)
(* the algorithm's width (32 hex digits for MD5, 40 for SHA1).             *)
(***************************************************************************)
TrueMD5 == "md5:content"     \* hex(md5(content)), 32 digits
TrueSHA1 == "sha1:content"   \* hex(sha1(content)), 40 digits

HashLen(h) ==
    CASE h = ""        -> 0
      [] h = "short"   -> 5
      [] h = TrueMD5   -> 32
      [] h = TrueSHA1  -> 40
      [] OTHER         -> 1

quarkMetaSHA1Key == "quark_uc_sha1"

(***************************************************************************)
(* UploadMetadata.  Extras is a Go map: nil and empty both read as "no     *)
(* key"; it is modelled as a function from the keys present to values.     *)
(* BlockList is a slice: None is the nil slice.                            *)
(***************************************************************************)
NoExtras == <<>>

NewMetadata(size, md5) ==
    [Size |-> size, SliceSize |-> 0, ContentMD5 |-> md5, SliceMD5 |-> "",
     BlockList |-> None, Extras |-> NoExtras]

MapPut(m, k, v) == [x \in (DOMAIN m) \cup {k} |-> IF x = k THEN v ELSE m[x]]
MapDel(m, k) == [x \in (DOMAIN m) \ {k} |-> m[x]]

SetExtra(m, key, value) ==
    IF key = "" THEN m
    ELSE IF value = "" THEN [m EXCEPT !.Extras = MapDel(m.Extras, key)]
    ELSE [m EXCEPT !.Extras = MapPut(m.Extras, key, value)]

GetExtra(m, key) ==
    IF key = "" \/ key \notin DOMAIN m.Extras THEN "" ELSE m.Extras[key]

\* cloneMetadata: the block list is copied into a fresh, non-nil slice.
cloneMetadata(m) ==
    [m EXCEPT !.BlockList = Some(IF IsSome(m.BlockList) THEN Get(m.BlockList) ELSE <<>>)]

MarshalWithoutExtras(m) ==
    [size |-> m.Size, slice_size |-> m.SliceSize, content_md5 |-> m.ContentMD5,
     slice_md5 |-> m.SliceMD5, block_list |-> m.BlockList,
     extras |-> None, upload_url |-> "", file_sha1 |-> ""]

\* MarshalJSON: the legacy keys are never written; extras is omitted when empty.
MarshalJSON(m) ==
    [size |-> m.Size, slice_size |-> m.SliceSize, content_md5 |-> m.ContentMD5,
     slice_md5 |-> m.SliceMD5, block_list |-> m.BlockList,
     extras |-> IF DOMAIN m.Extras = {} THEN None ELSE Some(m.Extras),
     upload_url |-> "", file_sha1 |-> ""]

\* The decoding without the folding of the legacy keys.
UnmarshalWithoutLegacy(j) ==
    [Size |-> j.size, SliceSize |-> j.slice_size,
     ContentMD5 |-> j.content_md5, SliceMD5 |-> j.slice_md5,
     BlockList |-> j.block_list,
     Extras |-> IF IsSome(j.extras) THEN Get(j.extras) ELSE NoExtras]

\* UnmarshalJSON: the legacy upload_url / file_sha1 keys are folded into Extras.
UnmarshalJSON(j) ==
    LET m0 == [Size |-> j.size, SliceSize |-> j.slice_size,
               ContentMD5 |-> j.content_md5, SliceMD5 |-> j.slice_md5,
               BlockList |-> j.block_list,
               Extras |-> IF IsSome(j.extras) THEN Get(j.extras) ELSE NoExtras]
        m1 == IF j.upload_url # "" THEN SetExtra(m0, "upload_url", j.upload_url) ELSE m0
    IN  IF j.file_sha1 # "" THEN SetExtra(m1, "file_sha1", j.file_sha1) ELSE m1

(***************************************************************************)
(* UploadCache.                                                            *)
(***************************************************************************)
NewUploadCache(path) ==
    [cachedPath |-> IF path # "" THEN normalizePath(path) ELSE "",
     tempFile |-> "", keep |-> {}, metadata |-> None,
     metadataPath |-> "", retainMeta |-> FALSE]

\* conf.Conf.TempDir
TempDir == "/tmp"

\* strings.TrimSpace on the keys of the model.
TrimSpace(key) ==
    CASE key = " k1" -> "k1"
      [] key = " "   -> ""
      [] OTHER       -> key

\* The rune loop of metadataPathForKey: every rune outside [A-Za-z0-9_-]
\* becomes '_'.
safeRunes(key) ==
    CASE key = "k/1" -> "k_1"
      [] key = " k1" -> "_k1"
      [] key = " "   -> "_"
      [] OTHER       -> key

\* fmt.Sprintf("anon-%d", time.Now().UnixNano()) at the instants of the model.
anonName(now) == IF now = 1 THEN "anon-1" ELSE "anon-2"

\* The path built from the key as given, neither trimmed nor made safe.
pathOfRawKey(key, now) == TempDir \o "/upload-" \o key \o ".meta"

\* metadataPathForKey: the key is trimmed, a blank key becomes anon-<now>,
\* the runes are made safe, and the file is upload-<safe>.meta under the temp
\* directory.
metadataPathForKey(key, now) ==
    LET trimmed == TrimSpace(key)
        named == IF trimmed = "" THEN anonName(now) ELSE trimmed
        safe0 == safeRunes(named)
        safe == IF safe0 = "" THEN anonName(now) ELSE safe0
    IN  TempDir \o "/upload-" \o safe \o ".meta"

\* The option WithMetadataKey(key) applied to a cache under construction at
\* the instant now.
WithMetadataKey(u, key, now) ==
    IF key = "" THEN u ELSE [u EXCEPT !.metadataPath = metadataPathForKey(key, now)]

SetCachedPath(u, path) ==
    IF path = "" THEN u
    ELSE [u EXCEPT !.cachedPath = normalizePath(path), !.metadata = None]

RegisterTempKeeps(u, path) ==
    IF path = "" THEN u
    ELSE [u EXCEPT !.tempFile = normalizePath(path), !.metadata = None,
                   !.keep = @ \cup {normalizePath(path)}]

RegisterTemp(u, path) ==
    IF path = "" THEN u
    ELSE [u EXCEPT !.tempFile = normalizePath(path), !.metadata = None]

currentPathLocked(u) == IF u.tempFile # "" THEN u.tempFile ELSE u.cachedPath

MarkKeep(u, path) ==
    IF path = "" THEN u
    ELSE [u EXCEPT !.keep = @ \cup {normalizePath(path)}]

ShouldKeep(u, path) ==
    IF path = "" THEN FALSE
    ELSE LET nPath == normalizePath(path)
         IN  \/ (u.cachedPath # "" /\ u.cachedPath = nPath)
             \/ nPath \in u.keep

metadataPathLocked(u) ==
    IF u.metadataPath # "" THEN u.metadataPath
    ELSE IF currentPathLocked(u) = "" THEN ""
    ELSE currentPathLocked(u) \o ".meta"

MetaPaths == {"/w/t1.meta", "/w/c1.meta"}

FileAt(fs, path) == IF path \in DOMAIN fs THEN fs[path] ELSE None

LoadNothing(u, fs) ==
    [ok |-> FALSE, meta |-> None, u |-> u, err |-> "not exist"]

\* LoadMetadata: [ok, meta, u, err] -- the cached copy if present, else the
\* sidecar; err is os.ErrNotExist when no path is known or no file is there.
LoadMetadata(u, fs) ==
    IF IsSome(u.metadata)
    THEN [ok |-> TRUE, meta |-> Some(cloneMetadata(Get(u.metadata))), u |-> u,
          err |-> ""]
    ELSE LET path == metadataPathLocked(u)
         IN  IF path = "" \/ ~IsSome(FileAt(fs, path))
             THEN [ok |-> FALSE, meta |-> None, u |-> u, err |-> "not exist"]
             ELSE LET meta == UnmarshalJSON(Get(FileAt(fs, path)))
                  IN  [ok |-> TRUE, meta |-> Some(cloneMetadata(meta)),
                       u |-> [u EXCEPT !.metadata = Some(meta)], err |-> ""]

\* SaveMetadata(non-nil meta): [u, fs, err]; writeOk is the outcome of
\* os.WriteFile.
SaveMetadata(u, fs, meta, writeOk) ==
    LET u1 == [u EXCEPT !.metadata = Some(cloneMetadata(meta))]
        path == metadataPathLocked(u1)
    IN  IF path = "" \/ ~writeOk
        THEN [u |-> u1, fs |-> fs, err |-> path # ""]
        ELSE [u |-> u1,
              fs |-> [p \in (DOMAIN fs) \cup {path} |->
                         IF p = path THEN Some(MarshalJSON(Get(u1.metadata)))
                         ELSE fs[p]],
              err |-> FALSE]

SaveNilKeepsFile(u, fs, removeOk) ==
    [u |-> [u EXCEPT !.metadata = None], fs |-> fs, err |-> FALSE]

\* SaveMetadata(nil): [u, fs, err]; removeOk is the outcome of os.Remove, where
\* a file that does not exist counts as removed.
SaveMetadataNil(u, fs, removeOk) ==
    LET u1 == [u EXCEPT !.metadata = None]
        path == metadataPathLocked(u1)
    IN  IF path = "" THEN [u |-> u1, fs |-> fs, err |-> FALSE]
        ELSE IF ~removeOk THEN [u |-> u1, fs |-> fs, err |-> TRUE]
        ELSE [u |-> u1, fs |-> [p \in (DOMAIN fs) \ {path} |-> fs[p]], err |-> FALSE]

(***************************************************************************)
(* QuarkOrUC.Put.  One action per phase; every return runs the deferred    *)
(* function of lines 135-144, which marks the cache's file for keeping     *)
(* when putErr was set.                                                    *)
(***************************************************************************)
IdlePut ==
    [pc |-> "idle", attempt |-> 0, md5Str |-> "", sha1Str |-> "",
     needMD5 |-> FALSE, needSHA1 |-> FALSE, partSize |-> 0, left |-> 0,
     partNumber |-> 0, md5s |-> <<>>, parts |-> <<>>, progress |-> <<>>,
     calls |-> <<>>, ret |-> None, putErr |-> FALSE, keepBefore |-> {},
     skippedHash |-> FALSE, hashedBefore |-> FALSE, results |-> <<>>]

IsCanceledNever(canceled) == FALSE

\* utils.IsCanceled(ctx): whether the context's Done channel is closed.
IsCanceled(canceled) == canceled

\* A float64 quotient of two integers, kept exact: num / den.
Quot(num, den) == [num |-> num, den |-> den]
QuotLess(a, b) == a.num * b.den < b.num * a.den
QuotIs(a, n) == a.num = n * a.den

DeferredKeepAlways(cache, putErr) ==
    IF ~IsSome(cache) THEN cache
    ELSE IF Get(cache).tempFile # "" THEN Some(MarkKeep(Get(cache), Get(cache).tempFile))
    ELSE cache

\* The deferred function: uploadCache == nil || putErr == nil -> nothing.
DeferredKeep(cache, putErr) ==
    IF ~IsSome(cache) \/ ~putErr THEN cache
    ELSE LET u == Get(cache)
         IN  IF u.tempFile # "" THEN Some(MarkKeep(u, u.tempFile))
             ELSE IF u.cachedPath # "" THEN Some(MarkKeep(u, u.cachedPath))
             ELSE cache

\* return err, with putErr set or not as the return site sets it.
Return(p, err, setPutErr) ==
    /\ put' = [p EXCEPT !.pc = "returned", !.ret = Some(err), !.putErr = setPutErr]
    /\ uc' = DeferredKeep(uc, setPutErr)

\* Lines 133-165: read the stream's hashes, consult the cache's metadata.
PutBegin ==
    /\ put.pc = "idle"
    /\ LET md5Str == stream.md5
           sha1Str == stream.sha1
           needMD5 == HashLen(md5Str) # 32
           needSHA1 == HashLen(sha1Str) # 40
           loaded == IF IsSome(uc) THEN LoadMetadata(Get(uc), files)
                     ELSE [ok |-> FALSE, meta |-> None, u |-> <<>>]
           usable == /\ loaded.ok
                     /\ Get(loaded.meta).Size = stream.size
                     /\ Get(loaded.meta).ContentMD5 # ""
                     /\ (~needSHA1 \/ GetExtra(Get(loaded.meta), quarkMetaSHA1Key) # "")
           md5Str2 == IF usable /\ needMD5 THEN Get(loaded.meta).ContentMD5 ELSE md5Str
           needMD52 == IF usable THEN FALSE ELSE needMD5
           sha1Str2 == IF usable /\ needSHA1
                       THEN GetExtra(Get(loaded.meta), quarkMetaSHA1Key) ELSE sha1Str
           needSHA12 == IF usable THEN FALSE ELSE needSHA1
       IN  /\ put' = [put EXCEPT !.pc = IF needMD52 \/ needSHA12 THEN "hash" ELSE "pre",
                                 !.attempt = @ + 1,
                                 !.md5Str = md5Str2, !.sha1Str = sha1Str2,
                                 !.needMD5 = needMD52, !.needSHA1 = needSHA12,
                                 !.keepBefore = IF IsSome(uc) THEN Get(uc).keep ELSE {},
                                 !.skippedHash = usable /\ (needMD5 \/ needSHA1)]
           /\ uc' = IF IsSome(uc) THEN Some(loaded.u) ELSE uc
    /\ UNCHANGED <<files, stream, ctxCanceled>>
    /\ UNCHANGED notPut

\* Lines 167-202: hash the stream through CacheFullAndWriter, save the metadata.
PutHashPhase(cacheOk, writeOk) ==
    /\ put.pc = "hash"
    /\ LET p1 == [put EXCEPT !.calls = Append(@, "CacheFullAndWriter"),
                             !.results = Append(@, IF cacheOk THEN "ok" ELSE "err")]
       IN  IF ~cacheOk
           THEN /\ Return(p1, "cache error", TRUE)
                /\ UNCHANGED files
           ELSE LET md5Str == IF put.needMD5 THEN TrueMD5 ELSE put.md5Str
                    sha1Str == IF put.needSHA1 THEN TrueSHA1 ELSE put.sha1Str
                    meta == SetExtra(NewMetadata(stream.size, md5Str),
                                     quarkMetaSHA1Key, sha1Str)
                    saved == IF IsSome(uc)
                             THEN SaveMetadata(Get(uc), files, meta, writeOk)
                             ELSE [u |-> <<>>, fs |-> files]
                IN  /\ put' = [p1 EXCEPT !.pc = "pre", !.md5Str = md5Str,
                                         !.sha1Str = sha1Str,
                                         !.needMD5 = FALSE, !.needSHA1 = FALSE]
                    /\ uc' = IF IsSome(uc) THEN Some(saved.u) ELSE uc
                    /\ files' = saved.fs
    /\ UNCHANGED <<stream, ctxCanceled>>
    /\ UNCHANGED notPut

\* Lines 204-209: the pre-upload handshake announces the part size.
PutPre(ok, partSize) ==
    /\ put.pc = "pre"
    /\ LET p1 == [put EXCEPT !.calls = Append(@, "upPre"),
                             !.results = Append(@, IF ok THEN "ok" ELSE "err")]
       IN  IF ~ok
           THEN Return(p1, "pre error", TRUE)
           ELSE /\ put' = [p1 EXCEPT !.pc = "uphash", !.partSize = partSize]
                /\ UNCHANGED uc
    /\ UNCHANGED <<files, stream, ctxCanceled>>
    /\ UNCHANGED notPut

PutUpHashIgnoresDedup(outcome) ==
    /\ put.pc = "uphash"
    /\ put' = [put EXCEPT !.calls = Append(@, "upHash"), !.results = Append(@, outcome),
                          !.pc = "parts", !.left = stream.size, !.partNumber = 1,
                          !.md5s = <<>>]
    /\ UNCHANGED <<uc, files, stream, ctxCanceled>>
    /\ UNCHANGED notPut

\* Lines 211-230: hash dedup, then the part loop's locals.
PutUpHash(outcome) ==
    /\ put.pc = "uphash"
    /\ LET p1 == [put EXCEPT !.calls = Append(@, "upHash"),
                             !.results = Append(@, outcome)]
       IN  IF outcome = "err" THEN Return(p1, "hash error", TRUE)
           ELSE IF outcome = "finish" THEN Return(p1, "nil", FALSE)
           ELSE /\ put' = [p1 EXCEPT !.pc = "parts", !.left = stream.size,
                                     !.partNumber = 1, !.md5s = <<>>]
                /\ UNCHANGED uc
    /\ UNCHANGED <<files, stream, ctxCanceled>>
    /\ UNCHANGED notPut

\* Lines 231-258: one iteration of the part loop.
PutPartNoProgress(readOk, outcome) ==
    /\ put.pc = "parts"
    /\ put.left > 0
    /\ ~ctxCanceled
    /\ readOk
    /\ outcome = "md5"
    /\ LET len == IF put.left < put.partSize THEN put.left ELSE put.partSize
       IN  put' = [put EXCEPT !.left = @ - len, !.calls = Append(@, "upPart"),
                              !.results = Append(@, outcome),
                              !.parts = Append(@, [n |-> put.partNumber, len |-> len]),
                              !.md5s = Append(@, put.partNumber),
                              !.partNumber = @ + 1,
                              !.progress = Append(@, Quot(100 * (stream.size - put.left),
                                                          stream.size))]
    /\ UNCHANGED <<uc, files, stream, ctxCanceled>>
    /\ UNCHANGED notPut

\* The iteration without md5s = append(md5s, m).
PutPartDropsMD5(readOk, outcome) ==
    /\ put.pc = "parts"
    /\ put.left > 0
    /\ ~ctxCanceled
    /\ readOk
    /\ outcome = "md5"
    /\ LET len == IF put.left < put.partSize THEN put.left ELSE put.partSize
       IN  put' = [put EXCEPT !.left = @ - len, !.calls = Append(@, "upPart"),
                              !.results = Append(@, outcome),
                              !.parts = Append(@, [n |-> put.partNumber, len |-> len]),
                              !.partNumber = @ + 1,
                              !.progress = Append(@,
                                  Quot(100 * (stream.size - (put.left - len)),
                                       stream.size))]
    /\ UNCHANGED <<uc, files, stream, ctxCanceled>>
    /\ UNCHANGED notPut

PutPart(readOk, outcome) ==
    /\ put.pc = "parts"
    /\ put.left > 0
    /\ IF IsCanceled(ctxCanceled)
       THEN Return(put, "context canceled", put.putErr)   \* return ctx.Err(): putErr untouched
       ELSE LET len == IF put.left < put.partSize THEN put.left ELSE put.partSize
                left == put.left - len
            IN  IF ~readOk THEN Return(put, "read error", TRUE)
                ELSE LET p1 == [put EXCEPT !.left = left,
                                           !.calls = Append(@, "upPart"),
                                           !.results = Append(@, outcome),
                                           !.parts = Append(@, [n |-> put.partNumber,
                                                                len |-> len])]
                     IN  IF outcome = "err" THEN Return(p1, "part error", TRUE)
                         ELSE IF outcome = "finish" THEN Return(p1, "nil", FALSE)
                         ELSE /\ put' = [p1 EXCEPT
                                           !.md5s = Append(@, put.partNumber),
                                           !.partNumber = @ + 1,
                                           !.progress = Append(@,
                                               Quot(100 * (stream.size - left), stream.size))]
                              /\ UNCHANGED uc
    /\ UNCHANGED <<files, stream, ctxCanceled>>
    /\ UNCHANGED notPut

\* Lines 259-263: commit the collected part MD5s once the loop has ended.
PutCommit(ok) ==
    /\ put.pc = "parts"
    /\ put.left = 0
    /\ LET p1 == [put EXCEPT !.calls = Append(@, "upCommit"),
                             !.results = Append(@, IF ok THEN "ok" ELSE "err")]
       IN  IF ~ok THEN Return(p1, "commit error", TRUE)
           ELSE /\ put' = [p1 EXCEPT !.pc = "finish"]
                /\ UNCHANGED uc
    /\ UNCHANGED <<files, stream, ctxCanceled>>
    /\ UNCHANGED notPut

\* Lines 264-266: putErr = upFinish's error, returned as is.
PutFinish(ok) ==
    /\ put.pc = "finish"
    /\ LET p1 == [put EXCEPT !.calls = Append(@, "upFinish"),
                             !.results = Append(@, IF ok THEN "ok" ELSE "err")]
       IN  IF ok THEN Return(p1, "nil", FALSE) ELSE Return(p1, "finish error", TRUE)
    /\ UNCHANGED <<files, stream, ctxCanceled>>
    /\ UNCHANGED notPut

\* The task's context is cancelled while Put runs.
CancelCtx ==
    /\ put.pc \notin {"idle", "returned"}
    /\ ~ctxCanceled
    /\ ctxCanceled' = TRUE
    /\ UNCHANGED <<uc, files, stream, put>>
    /\ UNCHANGED notPut

\* The hash phase of the attempt ran to its end: CacheFullAndWriter returned
\* without error and the metadata was saved.
HashPhaseCompleted(p) ==
    /\ "CacheFullAndWriter" \in {p.calls[i] : i \in 1..Len(p.calls)}
    /\ p.ret # Some("cache error")

\* The task is retried: Put is called again with the same cache, a stream of
\* the same size (which may or may not carry hashes) and a fresh context.
PutRetry(md5, sha1) ==
    /\ put.pc = "returned"
    /\ Get(put.ret) # "nil"
    /\ put.attempt < MaxAttempts
    /\ put' = [IdlePut EXCEPT !.attempt = put.attempt,
                              !.hashedBefore = put.hashedBefore \/ HashPhaseCompleted(put)]
    /\ stream' = [stream EXCEPT !.md5 = md5, !.sha1 = sha1]
    /\ ctxCanceled' = FALSE
    /\ UNCHANGED <<uc, files>>
    /\ UNCHANGED notPut

(***************************************************************************)
(* Tasks.  A task as the persistence layer and the routes see it through   *)
(* task.TaskExtensionInfo.  Creator is None for a system task.  Progress   *)
(* is a float64: a number, or NaN.  The states are tache's; StateInt is    *)
(* the integer stored in task_records.state.                               *)
(***************************************************************************)
Num(v) == [nan |-> FALSE, v |-> v]
NaN == [nan |-> TRUE, v |-> 0]
IsNaN(f) == f.nan

StatePending == "Pending"
StateRunning == "Running"
StateSucceeded == "Succeeded"
StateCanceling == "Canceling"
StateCanceled == "Canceled"
StateErrored == "Errored"
StateFailing == "Failing"
StateFailed == "Failed"
StateWaitingRetry == "WaitingRetry"
StateBeforeRetry == "BeforeRetry"

States == {StatePending, StateRunning, StateSucceeded, StateCanceling, StateCanceled,
           StateErrored, StateFailing, StateFailed, StateWaitingRetry, StateBeforeRetry}

StateInt(st) ==
    CASE st = StatePending -> 0      [] st = StateRunning -> 1
      [] st = StateSucceeded -> 2    [] st = StateCanceling -> 3
      [] st = StateCanceled -> 4     [] st = StateErrored -> 5
      [] st = StateFailing -> 6      [] st = StateFailed -> 7
      [] st = StateWaitingRetry -> 8 [] st = StateBeforeRetry -> 9

undoneStates == {StatePending, StateRunning, StateCanceling, StateErrored,
                 StateFailing, StateWaitingRetry, StateBeforeRetry}
doneStates == {StateCanceled, StateFailed, StateSucceeded}

User(id, name, role) == [ID |-> id, Username |-> name, Role |-> role]

Task(id, name, creator, state, progress) ==
    [ID |-> id, Name |-> name, Creator |-> creator, State |-> state,
     Status |-> "", Progress |-> progress, StartTime |-> None,
     EndTime |-> None, TotalBytes |-> 0, Err |-> ""]

(***************************************************************************)
(* The persistence layer.  The bytes handed to a writer are "", "null", a  *)
(* JSON array of task payloads, or something json.Unmarshal rejects.       *)
(***************************************************************************)
Bytes(raw, tasks) == [raw |-> raw, tasks |-> tasks]
JsonArray(tasks) == Bytes("json", tasks)
EmptyArray == JsonArray(<<>>)

KeepContent(data) == data

\* content := string(data); "null" and "" become "[]"  (lines 163-166, 53-56)
NormalizeContent(data) ==
    IF data.raw = "null" \/ data.raw = "" THEN EmptyArray ELSE data

\* json.Unmarshal([]byte(content), &tasks)
UnmarshalTasks(content) ==
    IF content.raw = "json" THEN [ok |-> TRUE, tasks |-> content.tasks]
    ELSE [ok |-> FALSE, tasks |-> <<>>]

toLite(task) ==
    [ID |-> task.ID, Name |-> task.Name,
     Creator |-> IF IsSome(task.Creator) THEN Get(task.Creator).Username ELSE "",
     CreatorID |-> IF IsSome(task.Creator) THEN Get(task.Creator).ID ELSE 0,
     CreatorRole |-> IF IsSome(task.Creator) THEN Get(task.Creator).Role ELSE -1,
     State |-> task.State, Status |-> task.Status, Progress |-> task.Progress,
     StartTime |-> task.StartTime, EndTime |-> task.EndTime,
     TotalBytes |-> task.TotalBytes, Error |-> task.Err]

\* convertToRecord without its math.IsNaN test.
keepNaN(taskType, t) ==
    [TaskID |-> t.ID, Type |-> taskType, Name |-> t.Name, Creator |-> t.Creator,
     CreatorID |-> t.CreatorID, CreatorRole |-> t.CreatorRole,
     State |-> StateInt(t.State), Status |-> t.Status, Progress |-> t.Progress,
     StartTime |-> t.StartTime, EndTime |-> t.EndTime,
     TotalBytes |-> t.TotalBytes, Error |-> t.Error]

convertToRecord(taskType, t) ==
    [TaskID |-> t.ID, Type |-> taskType, Name |-> t.Name, Creator |-> t.Creator,
     CreatorID |-> t.CreatorID, CreatorRole |-> t.CreatorRole,
     State |-> StateInt(t.State), Status |-> t.Status,
     Progress |-> IF IsNaN(t.Progress) THEN Num(100) ELSE t.Progress,
     StartTime |-> t.StartTime, EndTime |-> t.EndTime,
     TotalBytes |-> t.TotalBytes, Error |-> t.Error]

\* INSERT ... ON CONFLICT (task_id, type) DO UPDATE, row by row.
RECURSIVE UpsertRows(_, _)
UpsertRows(rows, records) ==
    IF records = <<>> THEN rows
    ELSE LET r == Head(records)
         IN  UpsertRows({x \in rows : ~(x.TaskID = r.TaskID /\ x.Type = r.Type)} \cup {r},
                        Tail(records))

\* The transaction without its DELETE of the kind's rows: an upsert only.
UpsertWithoutDelete(rows, taskType, records, ok) ==
    IF ~ok THEN rows ELSE UpsertRows(rows, records)

\* The transaction with a DELETE that has no WHERE clause.
DeleteEveryKind(rows, taskType, records, ok) ==
    IF ~ok THEN rows ELSE UpsertRows({}, records)

\* ReplaceTaskRecords, one transaction: it commits as a whole (ok) or not at all.
ReplaceTaskRecords(rows, taskType, records, ok) ==
    IF ~ok THEN rows
    ELSE UpsertRows({x \in rows : x.Type # taskType}, records)

UpsertTaskRecordsFromTasks(rows, taskType, tasks, ok) ==
    ReplaceTaskRecords(rows, taskType,
                       [i \in 1..Len(tasks) |-> convertToRecord(taskType, toLite(tasks[i]))],
                       ok)

\* UpdateTaskData: UPDATE task_items SET persist_data = ? WHERE key = ?
\* (no row of that key: nothing is updated and no error is returned).
UpdateTaskData(items, key, persistData, ok) ==
    IF ~ok \/ key \notin DOMAIN items THEN items
    ELSE [items EXCEPT ![key] = persistData]

\* GetTaskDataFunc: the row is read when the reader is made, not when it is called.
GetTaskDataFunc(items, type_s, enabled, findOk) ==
    IF ~enabled THEN [fn |-> "nil", data |-> EmptyArray]
    ELSE IF ~findOk \/ type_s \notin DOMAIN items THEN [fn |-> "nil", data |-> EmptyArray]
    ELSE [fn |-> "stored", data |-> items[type_s]]

GetTaskPersistReadFunc(items, type_s, persistEnabled, findOk) ==
    IF persistEnabled THEN GetTaskDataFunc(items, type_s, TRUE, findOk)
    ELSE [fn |-> "empty", data |-> EmptyArray]

IDsOf(tasks) == {tasks[i].ID : i \in 1..Len(tasks)}
SnapshotIDs(items, kind) ==
    IF kind \in DOMAIN items THEN IDsOf(UnmarshalTasks(items[kind]).tasks) ELSE {}
IndexIDs(rows, kind) == {r.TaskID : r \in {x \in rows : x.Type = kind}}

(***************************************************************************)
(* Configuration and bootstrap data (internal/bootstrap/data/task.go).     *)
(***************************************************************************)
Kinds == {"copy", "move"}

\* conf.Conf.Tasks.<Kind>.TaskPersistant
TaskPersistant == [k \in Kinds |-> k = "copy"]

InitialTasks == [k \in Kinds |-> EmptyArray]

\* initTasks: create the missing rows (createOk: the outcome of CreateTaskData),
\* then clearDisabledTaskData.
initTasks(items, createOk) ==
    LET made == [k \in (DOMAIN items) \cup (IF createOk THEN Kinds ELSE {}) |->
                    IF k \in DOMAIN items THEN items[k] ELSE InitialTasks[k]]
    IN  [k \in DOMAIN made |->
            IF ~TaskPersistant[k] THEN EmptyArray ELSE made[k]]

(***************************************************************************)
(* The combined writer returned by UpdateTaskDataAndIndexFunc, in two      *)
(* steps (the two database statements of one call), and the readers.       *)
(***************************************************************************)
RangeOf(seq) == {seq[i] : i \in 1..Len(seq)}
BagOfSeq(seq) == [x \in RangeOf(seq) |-> Cardinality({i \in 1..Len(seq) : seq[i] = x})]

\* Whether two byte strings hold the same task payloads, as multisets.
SamePayloads(a, b) ==
    BagOfSeq(UnmarshalTasks(a).tasks) = BagOfSeq(UnmarshalTasks(b).tasks)

NoOp ==
    [op |-> "none", kind |-> "", data |-> EmptyArray, err |-> FALSE,
     stored |-> FALSE, indexed |-> FALSE, overlapped |-> FALSE,
     result |-> EmptyArray, afterWrite |-> FALSE, same |-> FALSE]

RemoveAt(seq, i) == [j \in 1..(Len(seq) - 1) |-> IF j < i THEN seq[j] ELSE seq[j + 1]]

\* The writer of a kind with persistence enabled, lines 162-171: normalise the
\* bytes and write the snapshot row; an error of that statement is returned.
TickSnapshot(kind, data, ok) ==
    /\ TaskPersistant[kind]
    /\ Len(ticks) < MaxTicks
    /\ LET content == NormalizeContent(data)
           others == \E i \in 1..Len(ticks) : ticks[i].kind = kind
       IN  IF ~ok
           THEN /\ lastOp' = [NoOp EXCEPT !.op = "tick", !.kind = kind,
                                          !.data = content, !.err = TRUE]
                /\ UNCHANGED <<taskItems, ticks>>
           ELSE /\ taskItems' = UpdateTaskData(taskItems, kind, content, TRUE)
                /\ ticks' = Append([i \in 1..Len(ticks) |->
                                       IF ticks[i].kind = kind
                                       THEN [ticks[i] EXCEPT !.overlapped = TRUE]
                                       ELSE ticks[i]],
                                   [kind |-> kind, content |-> content,
                                    overlapped |-> others])
                /\ lastOp' = NoOp
    /\ UNCHANGED <<taskRecords, reader, signal>>
    /\ UNCHANGED notDb

\* The writer of a kind with persistence disabled: lines 162-166 and 173-181,
\* the index replacement being its only database statement.
TickDisabled(kind, data, ok) ==
    /\ ~TaskPersistant[kind]
    /\ LET content == NormalizeContent(data)
           un == UnmarshalTasks(content)
       IN  /\ taskRecords' = IF un.ok
                             THEN UpsertTaskRecordsFromTasks(taskRecords, kind, un.tasks, ok)
                             ELSE taskRecords
           /\ lastOp' = [NoOp EXCEPT !.op = "tick", !.kind = kind, !.data = content,
                                     !.indexed = un.ok /\ ok]
    /\ UNCHANGED <<taskItems, ticks, reader, signal>>
    /\ UNCHANGED notDb

TickIndexFails(i, ok) ==
    /\ i \in 1..Len(ticks)
    /\ LET t == ticks[i]
           un == UnmarshalTasks(t.content)
       IN  /\ taskRecords' = IF un.ok
                             THEN UpsertTaskRecordsFromTasks(taskRecords, t.kind, un.tasks, ok)
                             ELSE taskRecords
           /\ lastOp' = [NoOp EXCEPT !.op = "tick", !.kind = t.kind, !.data = t.content,
                                     !.err = ~(un.ok /\ ok),
                                     !.stored = TaskPersistant[t.kind]
                                                /\ t.kind \in DOMAIN taskItems,
                                     !.indexed = un.ok /\ ok,
                                     !.overlapped = t.overlapped]
    /\ ticks' = RemoveAt(ticks, i)
    /\ UNCHANGED <<taskItems, reader, signal>>
    /\ UNCHANGED notDb

\* The enabled writer's second statement, lines 173-181: deserialise the
\* snapshot and replace the kind's index rows;
\* a failure of either is logged and the writer returns nil.
TickIndex(i, ok) ==
    /\ i \in 1..Len(ticks)
    /\ LET t == ticks[i]
           un == UnmarshalTasks(t.content)
       IN  /\ taskRecords' = IF un.ok
                             THEN UpsertTaskRecordsFromTasks(taskRecords, t.kind, un.tasks, ok)
                             ELSE taskRecords
           /\ lastOp' = [NoOp EXCEPT !.op = "tick", !.kind = t.kind, !.data = t.content,
                                     !.stored = TaskPersistant[t.kind]
                                                /\ t.kind \in DOMAIN taskItems,
                                     !.indexed = un.ok /\ ok,
                                     !.overlapped = t.overlapped]
    /\ ticks' = RemoveAt(ticks, i)
    /\ UNCHANGED <<taskItems, reader, signal>>
    /\ UNCHANGED notDb

\* A caller obtains the kind's reader (InitTaskManager does, at task.go:33).
GetReader(kind, findOk) ==
    /\ reader' = Some([kind |-> kind,
                       f |-> GetTaskPersistReadFunc(taskItems, kind,
                                                    TaskPersistant[kind], findOk)])
    /\ UNCHANGED <<taskItems, taskRecords, ticks, signal, lastOp>>
    /\ UNCHANGED notDb

\* The held reader is called.  A stored-data reader blocks on the signal.
ReadHeld ==
    /\ IsSome(reader)
    /\ Get(reader).f.fn # "nil"
    /\ Get(reader).f.fn = "stored" => signal
    /\ lastOp' = [NoOp EXCEPT !.op = "read", !.kind = Get(reader).kind,
                              !.result = Get(reader).f.data,
                              !.same = SamePayloads(Get(reader).f.data, lastOp.data),
                              !.afterWrite = /\ lastOp.op = "tick"
                                             /\ lastOp.kind = Get(reader).kind
                                             /\ ~lastOp.err]
    /\ UNCHANGED <<taskItems, taskRecords, ticks, reader, signal>>
    /\ UNCHANGED notDb

\* The bootstrap layer signals that the storages are loaded.
FireSignal ==
    /\ ~signal
    /\ signal' = TRUE
    /\ UNCHANGED <<taskItems, taskRecords, ticks, reader, lastOp>>
    /\ UNCHANGED notDb

(***************************************************************************)
(* The task manager of one kind (tache.Manager), as section 4.1 of the     *)
(* specification gives its contract.  tasks maps an ID to its task, queue  *)
(* is the FIFO of pending IDs, held the IDs a worker is executing, workers *)
(* the active worker count, retry the automatic retries used so far and    *)
(* runs the executions since the task was submitted or retried by a user.  *)
(***************************************************************************)
NoManager ==
    [kind |-> "", tasks |-> <<>>, queue |-> <<>>, held |-> {}, workers |-> 0,
     maxRetry |-> 0, retry |-> <<>>, runs |-> <<>>]

HasTask(m, id) == id \in DOMAIN m.tasks
GetByID(m, id) == IF HasTask(m, id) THEN Some(m.tasks[id]) ELSE None
GetAll(m) == {m.tasks[id] : id \in DOMAIN m.tasks}
\* GetByCondition: the condition is given as a function on the tasks held.
GetByCondition(m, cond) == {t \in GetAll(m) : cond[t]}
StateOf(m, id) == m.tasks[id].State

Without(seq, id) == SelectSeq(seq, LAMBDA x : x # id)

\* A restored task enters Pending unless its snapshot shows it finished.
Restored(t) ==
    IF t.State \in doneStates THEN t ELSE [t EXCEPT !.State = StatePending]

\* The IDs of a task list in order, each once.
RECURSIVE PendingIDs(_)
PendingIDs(tasks) ==
    IF tasks = <<>> THEN <<>>
    ELSE LET rest == Without(PendingIDs(Tail(tasks)), Head(tasks).ID)
         IN  IF Head(tasks).State \in doneStates THEN rest
             ELSE <<Head(tasks).ID>> \o rest

\* tache.NewManager(WithWorks(works), WithMaxRetry(maxRetry), persist functions):
\* restored is what the persist reader returned, deserialised.
NewManager(kind, works, maxRetry, restored) ==
    LET ids == IDsOf(restored)
        last(id) == CHOOSE i \in 1..Len(restored) :
                       /\ restored[i].ID = id
                       /\ \A j \in 1..Len(restored) : restored[j].ID = id => j <= i
    IN  [kind |-> kind,
         tasks |-> [id \in ids |-> Restored(restored[last(id)])],
         queue |-> PendingIDs([i \in 1..Len(restored) |-> restored[last(restored[i].ID)]]),
         held |-> {}, workers |-> works, maxRetry |-> maxRetry,
         retry |-> [id \in ids |-> 0], runs |-> [id \in ids |-> 0]]

\* Submit(task): State = Pending, at the tail of the queue.
Submit(m, task) ==
    [m EXCEPT !.tasks = MapPut(m.tasks, task.ID, [task EXCEPT !.State = StatePending]),
              !.queue = Append(Without(m.queue, task.ID), task.ID),
              !.retry = MapPut(m.retry, task.ID, 0),
              !.runs = MapPut(m.runs, task.ID, 0)]

\* Cancel(id): a task that has not finished moves to Canceling; idempotent.
Cancel(m, id) ==
    IF ~HasTask(m, id) THEN m
    ELSE IF StateOf(m, id) \in doneStates \cup {StateCanceling} THEN m
    ELSE [m EXCEPT !.tasks[id].State = StateCanceling]

\* Retry(id): a finished task moves to Pending at the tail of the queue;
\* on any other task it is a no-op.
Retry(m, id) ==
    IF ~HasTask(m, id) THEN m
    ELSE IF StateOf(m, id) \notin doneStates THEN m
    ELSE [m EXCEPT !.tasks[id].State = StatePending,
                   !.tasks[id].Err = "",
                   !.queue = Append(m.queue, id),
                   !.retry[id] = 0,
                   !.runs[id] = 0]

\* Remove(id): the task leaves the manager, its queue and its worker.
Remove(m, id) ==
    IF ~HasTask(m, id) THEN m
    ELSE [m EXCEPT !.tasks = MapDel(m.tasks, id),
                   !.queue = Without(m.queue, id),
                   !.held = m.held \ {id},
                   !.retry = MapDel(m.retry, id),
                   !.runs = MapDel(m.runs, id)]

\* Remove applied to each task of a set of IDs.
RECURSIVE RemoveAll(_, _)
RemoveAll(m, ids) ==
    IF ids = {} THEN m
    ELSE LET id == CHOOSE x \in ids : TRUE
         IN  RemoveAll(Remove(m, id), ids \ {id})

\* RemoveByCondition: every task the condition holds of is removed.  The
\* condition is given as a function on the tasks held.
RemoveByCondition(m, cond) == RemoveAll(m, {t.ID : t \in GetByCondition(m, cond)})

\* SetWorkersNumActive(n): the active worker count changes; running workers
\* complete their task.
SetWorkersNumActive(m, n) == [m EXCEPT !.workers = n]

\* A free worker takes the head of the queue: a task cancelled while it waited
\* is reconciled to Canceled, any other starts Running.
CanStart(m) == m.queue # <<>> /\ Cardinality(m.held) < m.workers

Start(m) ==
    LET id == Head(m.queue)
    IN  IF StateOf(m, id) = StateCanceling
        THEN [m EXCEPT !.tasks[id].State = StateCanceled, !.queue = Tail(m.queue)]
        ELSE [m EXCEPT !.tasks[id].State = StateRunning,
                       !.queue = Tail(m.queue),
                       !.held = m.held \cup {id},
                       !.runs[id] = m.runs[id] + 1]

\* The execution of a held task returns err ("" for nil).
Finish(m, id, err) ==
    LET free == [m EXCEPT !.held = m.held \ {id}]
    IN  IF StateOf(m, id) = StateCanceling
        THEN [free EXCEPT !.tasks[id].State = StateCanceled]
        ELSE IF err = ""
        THEN [free EXCEPT !.tasks[id].State = StateSucceeded,
                          !.tasks[id].Progress = Num(100)]
        ELSE IF m.retry[id] < m.maxRetry
        THEN [free EXCEPT !.tasks[id].State = StateWaitingRetry,
                          !.tasks[id].Err = err,
                          !.retry[id] = m.retry[id] + 1]
        ELSE [free EXCEPT !.tasks[id].State = StateFailed, !.tasks[id].Err = err]

\* The backoff of a task waiting for its retry elapses.
Backoff(m, id) == [m EXCEPT !.tasks[id].State = StateBeforeRetry]

\* A task about to be retried re-enters the queue at its tail.
Requeue(m, id) ==
    [m EXCEPT !.tasks[id].State = StatePending, !.queue = Append(m.queue, id)]

\* A task cancelled while no worker held it and it was not queued.
Reconcile(m, id) == [m EXCEPT !.tasks[id].State = StateCanceled]

(***************************************************************************)
(* The HTTP control plane (server/handles/task.go).  A request carries the *)
(* user the auth middleware put in its context (None: no user) and its     *)
(* query parameters as strings, "" for an absent one.                      *)
(***************************************************************************)
defaultTaskPageSize == 20
maxTaskPageSize == 200

\* The strings of the model in byte-wise order, for Go's and SQL's comparisons.
Strings ==
    <<"", "a", "alice", "b", "ba", "bob", "c1", "c2", "c3", "c4", "c5", "missing">>
StrRank(str) == CHOOSE i \in 1..Len(Strings) : Strings[i] = str

\* strconv.Atoi on the parameter values of the model.
Atoi(str) ==
    CASE str = "-1" -> [ok |-> TRUE, v |-> -1]
      [] str = "0" -> [ok |-> TRUE, v |-> 0]
      [] str = "1" -> [ok |-> TRUE, v |-> 1]
      [] str = "2" -> [ok |-> TRUE, v |-> 2]
      [] str = "3" -> [ok |-> TRUE, v |-> 3]
      [] str = "4" -> [ok |-> TRUE, v |-> 4]
      [] str = "5" -> [ok |-> TRUE, v |-> 5]
      [] str = "6" -> [ok |-> TRUE, v |-> 6]
      [] str = "201" -> [ok |-> TRUE, v |-> 201]
      [] OTHER -> [ok |-> FALSE, v |-> 0]

\* strings.ToLower
ToLower(str) ==
    CASE str = "Creator" -> "creator"
      [] str = "DESC" -> "desc"
      [] str = "True" -> "true"
      [] OTHER -> str

\* strconv.ParseBool; an error leaves mine false.
ParseBool(str) == str \in {"1", "t", "T", "TRUE", "true", "True"}

\* regexp.Compile and MatchString on the patterns and names of the model.
RegexCompiles(re) == re # "["
MatchString(re, name) ==
    CASE re = "a" -> name \in {"a", "ba"}
      [] re = "^a" -> name = "a"
      [] re = "b" -> name \in {"b", "ba"}
      [] OTHER -> FALSE

\* name LIKE '%keyword%'
Like(name, keyword) ==
    \/ name = keyword
    \/ <<name, keyword>> \in {<<"ba", "a">>, <<"ba", "b">>}

\* A finite set in the order of a total strict order Less, as a sequence.
SortSet(S, Less(_, _)) ==
    [i \in 1..Cardinality(S) |->
        CHOOSE x \in S : Cardinality({y \in S : Less(y, x)}) = i - 1]

SubSeqFrom(seq, start, end) == [i \in 1..(end - start) |-> seq[start + i]]

getTaskInfo(task) ==
    [ID |-> task.ID, Name |-> task.Name,
     Creator |-> IF IsSome(task.Creator) THEN Get(task.Creator).Username ELSE "",
     CreatorRole |-> IF IsSome(task.Creator) THEN Get(task.Creator).Role ELSE -1,
     State |-> StateInt(task.State), Status |-> task.Status,
     Progress |-> IF IsNaN(task.Progress) THEN Num(100) ELSE task.Progress,
     StartTime |-> task.StartTime, EndTime |-> task.EndTime,
     TotalBytes |-> task.TotalBytes, Error |-> task.Err]

recordToInfo(r) ==
    [ID |-> r.TaskID, Name |-> r.Name, Creator |-> r.Creator,
     CreatorRole |-> r.CreatorRole, State |-> r.State, Status |-> r.Status,
     Progress |-> r.Progress, StartTime |-> r.StartTime, EndTime |-> r.EndTime,
     TotalBytes |-> r.TotalBytes, Error |-> r.Error]

recordsToInfos(records) == [i \in 1..Len(records) |-> recordToInfo(records[i])]

parseTaskListQuery(q) ==
    LET p == Atoi(IF q.page = "" THEN "1" ELSE q.page)
        page == IF ~p.ok \/ p.v < 1 THEN 1 ELSE p.v
        ps == IF q.page_size = "" THEN [ok |-> TRUE, v |-> defaultTaskPageSize]
              ELSE Atoi(q.page_size)
        size0 == IF ~ps.ok \/ ps.v <= 0 THEN defaultTaskPageSize ELSE ps.v
        pageSize == IF size0 > maxTaskPageSize THEN maxTaskPageSize ELSE size0
        ob == ToLower(IF q.order_by = "" THEN "name" ELSE q.order_by)
        orderBy == IF ob \in {"name", "creator", "state", "progress"} THEN ob ELSE "name"
        order == ToLower(q.order)
    IN  [ok |-> q.regex = "" \/ RegexCompiles(q.regex),
         page |-> page, pageSize |-> pageSize, orderBy |-> orderBy,
         reverse |-> (order = "desc" \/ order = "true"),
         mine |-> ParseBool(q.mine),
         regex |-> q.regex, keyword |-> q.regex]

progressNaNAsZero(task) == IF IsNaN(task.Progress) THEN 0 ELSE task.Progress.v
taskProgressValue(task) == IF IsNaN(task.Progress) THEN 100 ELSE task.Progress.v
creatorName(task) == IF IsSome(task.Creator) THEN Get(task.Creator).Username ELSE ""

compareString(a, b) ==
    IF a = b THEN 0 ELSE IF StrRank(a) > StrRank(b) THEN 1 ELSE -1
compareState(a, b) ==
    IF a = b THEN 0 ELSE IF StateInt(a) > StateInt(b) THEN 1 ELSE -1

\* The less function sortTasks hands to sort.SliceStable.
sortLess(a, b, orderBy, reverse) ==
    LET cmp0 == CASE orderBy = "creator" -> compareString(creatorName(a), creatorName(b))
                  [] orderBy = "state" -> compareState(a.State, b.State)
                  [] orderBy = "progress" ->
                        IF taskProgressValue(a) = taskProgressValue(b)
                        THEN compareString(a.ID, b.ID)
                        ELSE IF taskProgressValue(a) > taskProgressValue(b) THEN -1 ELSE 1
                  [] OTHER -> compareString(a.Name, b.Name)
        cmp1 == IF cmp0 = 0 THEN compareString(a.ID, b.ID) ELSE cmp0
        cmp == IF reverse THEN -cmp1 ELSE cmp1
    IN  cmp < 0

\* sortTasks: the IDs of a manager's tasks differ, so the order is total.
sortTasks(tasks, orderBy, reverse) ==
    SortSet(tasks, LAMBDA a, b : sortLess(a, b, orderBy, reverse))

\* COALESCE(end_time, start_time)
rowTime(r) == IF IsSome(r.EndTime) THEN r.EndTime ELSE r.StartTime

\* ORDER BY COALESCE(end_time, start_time) DESC, task_id DESC.  Where a NULL
\* sorts is the database's choice (nullsFirst).
rowBefore(a, b, nullsFirst) ==
    IF rowTime(a) = rowTime(b) THEN StrRank(a.TaskID) > StrRank(b.TaskID)
    ELSE IF rowTime(a) = None THEN nullsFirst
    ELSE IF rowTime(b) = None THEN ~nullsFirst
    ELSE Get(rowTime(a)) > Get(rowTime(b))

Min(a, b) == IF a < b THEN a ELSE b

\* ListTaskRecords with the offset of the page after the one asked for.
offsetOfNextPage(rows, taskType, states, creatorID, keyword, page, pageSize, nullsFirst, dbOk) ==
    LET page1 == IF page < 1 THEN 1 ELSE page
        size1 == IF pageSize < 1 THEN 20 ELSE pageSize
        offset == page1 * size1
        matched == {r \in rows :
                      /\ r.Type = taskType
                      /\ (states # {} => r.State \in {StateInt(st) : st \in states})
                      /\ (creatorID # 0 => r.CreatorID = creatorID)
                      /\ (keyword # "" => Like(r.Name, keyword))}
        total == Cardinality(matched)
        ordered == SortSet(matched, LAMBDA a, b : rowBefore(a, b, nullsFirst))
    IN  IF ~dbOk THEN [err |-> TRUE, records |-> <<>>, total |-> 0]
        ELSE [err |-> FALSE,
              records |-> SubSeqFrom(ordered, Min(offset, total),
                                     Min(offset + size1, total)),
              total |-> total]

\* The coercion of ListTaskRecords' paging arguments (lines 186-192): the
\* values it hands to Offset and Limit.
listPaging(page, pageSize) ==
    LET page1 == IF page < 1 THEN 1 ELSE page
        size1 == IF pageSize < 1 THEN 20 ELSE pageSize
    IN  [offset |-> (page1 - 1) * size1, limit |-> size1]

\* The rows the WHERE clauses of ListTaskRecords select (lines 193-202).
listMatched(rows, taskType, states, creatorID, keyword) ==
    {r \in rows :
        /\ r.Type = taskType
        /\ (states # {} => r.State \in {StateInt(st) : st \in states})
        /\ (creatorID # 0 => r.CreatorID = creatorID)
        /\ (keyword # "" => Like(r.Name, keyword))}

\* tx.Count(&total), the first query (lines 203-206).
listCount(rows, taskType, states, creatorID, keyword) ==
    Cardinality(listMatched(rows, taskType, states, creatorID, keyword))

\* tx.Order(...).Offset(offset).Limit(pageSize).Find(&records), the second
\* query (lines 207-212).
listFind(rows, taskType, states, creatorID, keyword, page, pageSize, nullsFirst) ==
    LET matched == listMatched(rows, taskType, states, creatorID, keyword)
        n == Cardinality(matched)
        ordered == SortSet(matched, LAMBDA a, b : rowBefore(a, b, nullsFirst))
        pg == listPaging(page, pageSize)
    IN  SubSeqFrom(ordered, Min(pg.offset, n), Min(pg.offset + pg.limit, n))

\* ListTaskRecords run against one table state; dbOk is the outcome of its
\* two queries.
ListTaskRecords(rows, taskType, states, creatorID, keyword, page, pageSize, nullsFirst, dbOk) ==
    IF ~dbOk THEN [err |-> TRUE, records |-> <<>>, total |-> 0]
    ELSE [err |-> FALSE,
          records |-> listFind(rows, taskType, states, creatorID, keyword,
                               page, pageSize, nullsFirst),
          total |-> listCount(rows, taskType, states, creatorID, keyword)]

\* What a handler writes: common.SuccessResp / ErrorStrResp / ErrorResp.
\* applied names the manager method the request made the handler call and
\* was the state its task was in; indexed tells a list served from the index.
Resp(status, message, content, total) ==
    [status |-> status, message |-> message, content |-> content,
     total |-> total, applied |-> "none", was |-> "", indexed |-> FALSE]

\* A nil pointer dereference: the handler panics and writes nothing itself.
Panic == Resp(0, "panic: nil pointer dereference", <<>>, 0)

\* getUserInfo
Caller(id, admin) == [ID |-> id, Admin |-> admin]

\* taskListHandler(manager, taskType, useIndex, states...) serving request q.
taskListHandler(m, rows, taskType, useIndex, states, q, nullsFirst, dbOk) ==
    IF q.caller = None THEN Resp(401, "user invalid", <<>>, 0)
    ELSE
    LET isAdmin == Get(q.caller).Admin
        uid == Get(q.caller).ID
        query == parseTaskListQuery(q)
        restrictOwner == query.mine \/ ~isAdmin
    IN  IF ~query.ok THEN Resp(400, "error parsing regexp", <<>>, 0)
        ELSE IF useIndex /\ query.regex = ""
        THEN LET creatorID == IF restrictOwner THEN uid ELSE 0
                 res == ListTaskRecords(rows, taskType, states, creatorID,
                                        query.keyword, query.page, query.pageSize,
                                        nullsFirst, dbOk)
             IN  IF res.err THEN Resp(500, "database error", <<>>, 0)
                 ELSE [Resp(200, "success", recordsToInfos(res.records), res.total)
                          EXCEPT !.indexed = TRUE]
        ELSE LET keep(tsk) ==
                     LET creatorID == IF IsSome(tsk.Creator) THEN Get(tsk.Creator).ID
                                      ELSE 0
                     IN  /\ tsk.State \in states
                         /\ ~(~isAdmin /\ creatorID # uid)
                         /\ ~(restrictOwner /\ creatorID # uid)
                         /\ ~(query.regex # "" /\ ~MatchString(query.regex, tsk.Name))
                 tasks == sortTasks(GetByCondition(m, [t \in GetAll(m) |-> keep(t)]),
                                    query.orderBy,
                                    query.reverse)
                 total == Len(tasks)
                 start0 == (query.page - 1) * query.pageSize
                 start1 == IF start0 < 0 THEN 0 ELSE start0
                 start == IF start1 > total THEN total ELSE start1
                 end0 == start + query.pageSize
                 end == IF end0 > total THEN total ELSE end0
                 page == SubSeqFrom(tasks, start, end)
             IN  Resp(200, "success",
                      [i \in 1..Len(page) |-> getTaskInfo(page[i])], total)

\* The callbacks with manager.Retry registered for /cancel as well.
cancelCallsRetry(m, route, task) ==
    CASE route = "info" ->
            [resp |-> Resp(200, "success", <<getTaskInfo(task)>>, 0), mgr |-> m]
      [] route = "delete" ->
            [resp |-> [Resp(200, "success", <<>>, 0) EXCEPT !.applied = "Remove",
                                                              !.was = task.State],
             mgr |-> Remove(m, task.ID)]
      [] route \in {"cancel", "retry"} ->
            [resp |-> [Resp(200, "success", <<>>, 0) EXCEPT !.applied = "Retry",
                                                              !.was = task.State],
             mgr |-> Retry(m, task.ID)]

\* The callbacks with /cancel calling Cancel and then Retry.
cancelThenRetry(m, route, task) ==
    CASE route = "info" ->
            [resp |-> Resp(200, "success", <<getTaskInfo(task)>>, 0), mgr |-> m]
      [] route = "cancel" ->
            [resp |-> [Resp(200, "success", <<>>, 0) EXCEPT !.applied = "Cancel",
                                                              !.was = task.State],
             mgr |-> Retry(Cancel(m, task.ID), task.ID)]
      [] route = "delete" ->
            [resp |-> [Resp(200, "success", <<>>, 0) EXCEPT !.applied = "Remove",
                                                              !.was = task.State],
             mgr |-> Remove(m, task.ID)]
      [] route = "retry" ->
            [resp |-> [Resp(200, "success", <<>>, 0) EXCEPT !.applied = "Retry",
                                                              !.was = task.State],
             mgr |-> Retry(m, task.ID)]

\* The callbacks taskRoute registers for /info, /cancel, /delete and /retry.
targetedCallback(m, route, task) ==
    CASE route = "info" ->
            [resp |-> Resp(200, "success", <<getTaskInfo(task)>>, 0), mgr |-> m]
      [] route = "cancel" ->
            [resp |-> [Resp(200, "success", <<>>, 0) EXCEPT !.applied = "Cancel",
                                                              !.was = task.State],
             mgr |-> Cancel(m, task.ID)]
      [] route = "delete" ->
            [resp |-> [Resp(200, "success", <<>>, 0) EXCEPT !.applied = "Remove",
                                                              !.was = task.State],
             mgr |-> Remove(m, task.ID)]
      [] route = "retry" ->
            [resp |-> [Resp(200, "success", <<>>, 0) EXCEPT !.applied = "Retry",
                                                              !.was = task.State],
             mgr |-> Retry(m, task.ID)]

\* getTargetedHandler(manager, callback) serving request q.
getTargetedHandler(m, route, q) ==
    IF q.caller = None
    THEN [resp |-> Resp(401, "user invalid", <<>>, 0), mgr |-> m]
    ELSE
    LET isAdmin == Get(q.caller).Admin
        uid == Get(q.caller).ID
        t == GetByID(m, q.tid)
    IN  IF t = None THEN [resp |-> Resp(404, "task not found", <<>>, 0), mgr |-> m]
        ELSE IF ~isAdmin /\ Get(t).Creator = None THEN [resp |-> Panic, mgr |-> m]
        ELSE IF ~isAdmin /\ uid # Get(Get(t).Creator).ID
        THEN [resp |-> Resp(404, "task not found", <<>>, 0), mgr |-> m]
        ELSE targetedCallback(m, route, Get(t))

\* The callbacks taskRoute registers for /cancel_some, /delete_some, /retry_some.
batchCallback(m, route, task) ==
    CASE route = "cancel_some" -> Cancel(m, task.ID)
      [] route = "delete_some" -> Remove(m, task.ID)
      [] route = "retry_some" -> Retry(m, task.ID)

\* The loop of getBatchHandler over the IDs left, from manager m with the
\* errors and the callbacks made so far.  t.GetCreator().ID on a task without
\* creator is a nil pointer dereference: the loop ends there in a panic.
RECURSIVE batchLoop(_, _, _, _, _, _)
batchLoop(m, route, caller, tids, retErrs, appliedTo) ==
    IF tids = <<>>
    THEN [mgr |-> m, retErrs |-> retErrs, appliedTo |-> appliedTo, panic |-> FALSE]
    ELSE
    LET tid == Head(tids)
        t == GetByID(m, tid)
    IN  IF t = None
        THEN batchLoop(m, route, caller, Tail(tids),
                       MapPut(retErrs, tid, "task not found"), appliedTo)
        ELSE IF ~caller.Admin /\ Get(t).Creator = None
        THEN [mgr |-> m, retErrs |-> retErrs, appliedTo |-> appliedTo, panic |-> TRUE]
        ELSE IF ~caller.Admin /\ caller.ID # Get(Get(t).Creator).ID
        THEN batchLoop(m, route, caller, Tail(tids),
                       MapPut(retErrs, tid, "task not found"), appliedTo)
        ELSE batchLoop(batchCallback(m, route, Get(t)), route, caller, Tail(tids),
                       retErrs, Append(appliedTo, tid))

\* What a batch handler writes: content is the map of ID to error, appliedTo
\* the IDs its callback was called on, in order.
BatchResp(status, message, retErrs, appliedTo) ==
    [status |-> status, message |-> message, content |-> retErrs, total |-> 0,
     applied |-> IF appliedTo = <<>> THEN "none" ELSE "batch", was |-> "",
     indexed |-> FALSE, appliedTo |-> appliedTo]

\* getBatchHandler(manager, callback) serving request q, whose body is a JSON
\* array of IDs or something ShouldBind rejects.
getBatchHandler(m, route, q) ==
    IF q.caller = None
    THEN [resp |-> BatchResp(401, "user invalid", <<>>, <<>>), mgr |-> m]
    ELSE IF ~q.body.ok
    THEN [resp |-> BatchResp(400, "invalid request format", <<>>, <<>>), mgr |-> m]
    ELSE LET out == batchLoop(m, route, Get(q.caller), q.body.tids, <<>>, <<>>)
         IN  IF out.panic
             THEN [resp |-> BatchResp(0, Panic.message, <<>>, out.appliedTo),
                   mgr |-> out.mgr]
             ELSE [resp |-> BatchResp(200, "success", out.retErrs, out.appliedTo),
                   mgr |-> out.mgr]

BatchRoutes == {"cancel_some", "delete_some", "retry_some"}

ClearRoutes == {"clear_done", "clear_succeeded"}

\* The states /clear_done and /clear_succeeded name.
clearStates(route) ==
    IF route = "clear_done" THEN {StateCanceled, StateFailed, StateSucceeded}
    ELSE {StateSucceeded}

\* Whether a condition `(isAdmin || uid == task.GetCreator().ID) && ...` can be
\* evaluated on every task of the manager: for a caller who is no
\* administrator it dereferences the creator of every task it is called on.
derefsNil(m, caller) == ~caller.Admin /\ \E t \in GetAll(m) : t.Creator = None

\* The handlers of /clear_done and /clear_succeeded serving request q.  When
\* the condition panics on a task without creator, the tasks that
\* RemoveByCondition had tried before it (any of the others) may be gone.
clearHandler(m, route, q, before) ==
    IF q.caller = None
    THEN [resp |-> Resp(401, "user invalid", <<>>, 0), mgr |-> m]
    ELSE
    LET caller == Get(q.caller)
        owned(t) == caller.Admin \/ caller.ID = Get(t.Creator).ID
    IN  IF derefsNil(m, caller)
        THEN LET tried == {t \in GetAll(m) : t.ID \in before /\ t.Creator # None}
                 gone == {t.ID : t \in {x \in tried : owned(x) /\ x.State \in clearStates(route)}}
             IN  [resp |-> [Panic EXCEPT !.applied =
                                IF gone = {} THEN "none" ELSE "RemoveByCondition"],
                  mgr |-> RemoveAll(m, gone)]
        ELSE [resp |-> [Resp(200, "success", <<>>, 0)
                           EXCEPT !.applied = "RemoveByCondition"],
              mgr |-> RemoveByCondition(m,
                         [t \in GetAll(m) |-> owned(t) /\ t.State \in clearStates(route)])]

\* The condition of /retry_failed for a caller, as a function on the tasks of m
\* (defined where it does not panic).
failedOf(m, caller) ==
    [t \in GetAll(m) |->
        /\ caller.Admin \/ caller.ID = Get(t.Creator).ID
        /\ t.State = StateFailed]

\* The orders in which GetByCondition may return the tasks of a set: it
\* ranges over a map.
Orders(ids) == {order \in [1..Cardinality(ids) -> ids] :
                   {order[i] : i \in 1..Cardinality(ids)} = ids}

\* SetupTaskRoute: which kinds' list routes may use the index.
UseIndex(taskType) == taskType \notin {"upload", "decompress_upload"}

ListRoutes == {"undone", "done"}
TargetedRoutes == {"info", "cancel", "delete", "retry"}

Request(route, caller, tid) ==
    [route |-> route, caller |-> caller, tid |-> tid, page |-> "", page_size |-> "",
     order_by |-> "", order |-> "", mine |-> "", regex |-> ""]

\* The tasks of a manager as the persistence hook serialises them.
Snapshot(m) ==
    LET byID == SortSet(GetAll(m), LAMBDA a, b : StrRank(a.ID) < StrRank(b.ID))
    IN  JsonArray(byID)

\* The kinds InitTaskManager gives persist functions.
HasPersistFunctions(kind) == kind \in Kinds

\* The writer UpdateTaskDataAndIndexFunc returns, called once on data:
\* storeOk and indexOk are the outcomes of its two database statements.
CombinedWriter(items, rows, kind, data, storeOk, indexOk) ==
    LET content == NormalizeContent(data)
        un == UnmarshalTasks(content)
        indexed == IF un.ok THEN UpsertTaskRecordsFromTasks(rows, kind, un.tasks, indexOk)
                   ELSE rows
    IN  IF TaskPersistant[kind] /\ ~storeOk THEN [items |-> items, rows |-> rows]
        ELSE [items |-> IF TaskPersistant[kind]
                        THEN UpdateTaskData(items, kind, content, TRUE)
                        ELSE items,
              rows |-> indexed]

\* The manager's persistence hook after its tasks became those of m2.
Persisted(m2, storeOk, indexOk) ==
    IF HasPersistFunctions(m2.kind)
    THEN CombinedWriter(taskItems, taskRecords, m2.kind, Snapshot(m2), storeOk, indexOk)
    ELSE [items |-> taskItems, rows |-> taskRecords]

\* The manager's tasks become those of m2 and the hook persists them.
MgrBecomes(m2, storeOk, indexOk) ==
    /\ mgr' = m2
    /\ taskItems' = Persisted(m2, storeOk, indexOk).items
    /\ taskRecords' = Persisted(m2, storeOk, indexOk).rows

\* A targeted handler serves request q.
Targeted(q, storeOk, indexOk) ==
    LET out == getTargetedHandler(mgr, q.route, q)
    IN  /\ resp' = Some(out.resp)
        /\ IF out.resp.applied = "none"
           THEN UNCHANGED <<mgr, taskItems, taskRecords>>
           ELSE MgrBecomes(out.mgr, storeOk, indexOk)

\* POST /info, /cancel, /delete or /retry is served for the request at hand.
ServeTargeted(storeOk, indexOk) ==
    /\ IsSome(req)
    /\ resp = None
    /\ Get(req).route \in TargetedRoutes
    /\ Targeted(Get(req), storeOk, indexOk)
    /\ UNCHANGED <<putVars, ticks, reader, signal, lastOp, setting, conf, req>>

\* A request for a targeted route arrives and is served.
TargetedRequest(route, caller, tid, storeOk, indexOk) ==
    /\ mgr.kind # ""
    /\ req' = Some(Request(route, Some(caller), tid))
    /\ Targeted(Request(route, Some(caller), tid), storeOk, indexOk)
    /\ UNCHANGED <<putVars, ticks, reader, signal, lastOp, setting, conf>>

(***************************************************************************)
(* The manager at work: tasks are submitted, workers take them from the    *)
(* queue, executions return, and the thread-number setting changes.        *)
(***************************************************************************)
\* The filter letting a negative number through.
keepNegative(num) == num

taskFilterNegative(num) == IF num < 0 THEN 0 ELSE num

\* setting.GetInt(key, default)
GetInt(item, default) == IF IsSome(item) THEN Get(item) ELSE default

\* InitTaskManager passing one retry too many to WithMaxRetry.
oneMoreRetry(kind, item, cfg, restored) ==
    NewManager(kind, GetInt(item, cfg.Workers), cfg.MaxRetry + 1, restored)

\* InitTaskManager, for one kind: restored is what the kind's persist reader
\* returned (nothing for a kind without persist functions).
InitTaskManager(kind, item, cfg, restored) ==
    NewManager(kind, GetInt(item, cfg.Workers), cfg.MaxRetry, restored)

\* The callback InitTaskManager registers for changes of the settings.
settingChangingCallback(m, item, cfg) ==
    SetWorkersNumActive(m, taskFilterNegative(GetInt(item, cfg.Workers)))

\* syncTaskIndex run on the tasks of a manager that has not restored yet.
syncBeforeRestore(rows, taskType, m, ok) ==
    UpsertTaskRecordsFromTasks(rows, taskType, <<>>, ok)

\* syncTaskIndex: the index rows of the kind become the manager's tasks.
syncTaskIndex(rows, taskType, m, ok) ==
    UpsertTaskRecordsFromTasks(rows, taskType, Snapshot(m).tasks, ok)

\* What a manager under construction gets from its persist reader.
ReadBy(f) == IF f.fn = "nil" THEN <<>> ELSE UnmarshalTasks(f.data).tasks

\* The manager is constructed anew with the persist functions already made:
\* tache.NewManager(..., WithPersistFunction(read, write), ...) of lines 33-36
\* with the reader and writer of the previous construction.
RestartManager ==
    /\ IsSome(reader)
    /\ Get(reader).f.fn = "stored" => signal
    /\ mgr' = InitTaskManager(Get(reader).kind, setting, conf, ReadBy(Get(reader).f))
    /\ UNCHANGED <<putVars, dbVars, setting, conf, httpVars>>

\* The process starts again: InitTaskManager makes the persist functions, the
\* manager, and synchronises the index.
RestartProcess(kind, findOk, indexOk) ==
    /\ mgr.kind = kind
    /\ signal
    /\ LET f == GetTaskPersistReadFunc(taskItems, kind, TaskPersistant[kind], findOk)
           m2 == InitTaskManager(kind, setting, conf, ReadBy(f))
       IN  /\ reader' = Some([kind |-> kind, f |-> f])
           /\ mgr' = m2
           /\ taskRecords' = syncTaskIndex(taskRecords, kind, m2, indexOk)
    /\ UNCHANGED <<putVars, taskItems, ticks, signal, lastOp, setting, conf, httpVars>>

SubmitTask(task, storeOk, indexOk) ==
    /\ mgr.kind # ""
    /\ ~HasTask(mgr, task.ID)
    /\ MgrBecomes(Submit(mgr, task), storeOk, indexOk)
    /\ UNCHANGED <<putVars, ticks, reader, signal, lastOp, setting, conf, httpVars>>

WorkerStart(storeOk, indexOk) ==
    /\ CanStart(mgr)
    /\ MgrBecomes(Start(mgr), storeOk, indexOk)
    /\ UNCHANGED <<putVars, ticks, reader, signal, lastOp, setting, conf, httpVars>>

ExecReturn(id, err, storeOk, indexOk) ==
    /\ id \in mgr.held
    /\ MgrBecomes(Finish(mgr, id, err), storeOk, indexOk)
    /\ UNCHANGED <<putVars, ticks, reader, signal, lastOp, setting, conf, httpVars>>

BackoffElapsed(id) ==
    /\ HasTask(mgr, id)
    /\ StateOf(mgr, id) = StateWaitingRetry
    /\ mgr' = Backoff(mgr, id)
    /\ UNCHANGED <<putVars, dbVars, setting, conf, httpVars>>

RetryRequeue(id) ==
    /\ HasTask(mgr, id)
    /\ StateOf(mgr, id) = StateBeforeRetry
    /\ mgr' = Requeue(mgr, id)
    /\ UNCHANGED <<putVars, dbVars, setting, conf, httpVars>>

ReconcileCanceled(id, storeOk, indexOk) ==
    /\ HasTask(mgr, id)
    /\ StateOf(mgr, id) = StateCanceling
    /\ id \notin mgr.held
    /\ \A i \in 1..Len(mgr.queue) : mgr.queue[i] # id
    /\ MgrBecomes(Reconcile(mgr, id), storeOk, indexOk)
    /\ UNCHANGED <<putVars, ticks, reader, signal, lastOp, setting, conf, httpVars>>

\* The kind's thread-number setting is saved and the callbacks run.
SettingChanged(num) ==
    /\ mgr.kind # ""
    /\ setting' = Some(num)
    /\ mgr' = settingChangingCallback(mgr, Some(num), conf)
    /\ UNCHANGED <<putVars, dbVars, conf, httpVars>>

\* GET /undone or /done is served for the request at hand.
ServeList(nullsFirst, dbOk) ==
    /\ IsSome(req)
    /\ resp = None
    /\ Get(req).route \in ListRoutes
    /\ resp' = Some(taskListHandler(mgr, taskRecords, mgr.kind, UseIndex(mgr.kind),
                                    IF Get(req).route = "undone" THEN undoneStates
                                    ELSE doneStates,
                                    Get(req), nullsFirst, dbOk))
    /\ UNCHANGED <<putVars, dbVars, mgrVars, req>>

\* POST /cancel_some, /delete_some or /retry_some is served for the request
\* at hand.
ServeBatch(storeOk, indexOk) ==
    /\ IsSome(req)
    /\ resp = None
    /\ Get(req).route \in BatchRoutes
    /\ LET out == getBatchHandler(mgr, Get(req).route, Get(req))
       IN  /\ resp' = Some(out.resp)
           /\ IF out.resp.appliedTo = <<>>
              THEN UNCHANGED <<mgr, taskItems, taskRecords>>
              ELSE MgrBecomes(out.mgr, storeOk, indexOk)
    /\ UNCHANGED <<putVars, ticks, reader, signal, lastOp, setting, conf, req>>

\* POST /clear_done or /clear_succeeded is served for the request at hand.
ServeClear(before, storeOk, indexOk) ==
    /\ IsSome(req)
    /\ resp = None
    /\ Get(req).route \in ClearRoutes
    /\ LET out == clearHandler(mgr, Get(req).route, Get(req), before)
       IN  /\ resp' = Some(out.resp)
           /\ IF out.resp.applied = "none"
              THEN UNCHANGED <<mgr, taskItems, taskRecords>>
              ELSE MgrBecomes(out.mgr, storeOk, indexOk)
    /\ UNCHANGED <<putVars, ticks, reader, signal, lastOp, setting, conf, req>>

\* POST /retry_failed, first part: the user is read and GetByCondition
\* returns the failed tasks of the caller, which the handler keeps in `tasks`.
RetryFailedBegin(order) ==
    /\ IsSome(req)
    /\ resp = None
    /\ Get(req).route = "retry_failed"
    /\ Get(req).tasks = None
    /\ IF Get(req).caller = None
       THEN /\ resp' = Some(Resp(401, "user invalid", <<>>, 0))
            /\ req' = req
       ELSE IF derefsNil(mgr, Get(Get(req).caller))
       THEN /\ resp' = Some(Panic)
            /\ req' = req
       ELSE /\ order \in Orders({t.ID : t \in
                          GetByCondition(mgr, failedOf(mgr, Get(Get(req).caller)))})
            /\ req' = Some([Get(req) EXCEPT !.tasks = Some(order)])
            /\ resp' = resp
    /\ UNCHANGED <<putVars, dbVars, mgrVars>>

\* POST /retry_failed, the loop: manager.Retry on the next task of `tasks`.
RetryFailedStep(storeOk, indexOk) ==
    /\ IsSome(req)
    /\ resp = None
    /\ Get(req).route = "retry_failed"
    /\ Get(req).tasks # None
    /\ Get(Get(req).tasks) # <<>>
    /\ LET m2 == Retry(mgr, Head(Get(Get(req).tasks)))
       IN  IF m2 = mgr THEN UNCHANGED <<mgr, taskItems, taskRecords>>
           ELSE MgrBecomes(m2, storeOk, indexOk)
    /\ req' = Some([Get(req) EXCEPT !.tasks = Some(Tail(Get(Get(req).tasks)))])
    /\ UNCHANGED <<putVars, ticks, reader, signal, lastOp, setting, conf, resp>>

\* POST /retry_failed, the end: the loop is over and success is written.
RetryFailedEnd ==
    /\ IsSome(req)
    /\ resp = None
    /\ Get(req).route = "retry_failed"
    /\ Get(req).tasks = Some(<<>>)
    /\ resp' = Some(Resp(200, "success", <<>>, 0))
    /\ UNCHANGED <<putVars, dbVars, mgrVars, req>>

\* While /retry_failed is in its loop, another request is served by a targeted
\* handler (its response goes to its own client).
Meanwhile(route, caller, tid, storeOk, indexOk) ==
    /\ IsSome(req)
    /\ resp = None
    /\ Get(req).route = "retry_failed"
    /\ Get(req).tasks # None
    /\ LET out == getTargetedHandler(mgr, route, Request(route, Some(caller), tid))
       IN  /\ out.mgr # mgr
           /\ MgrBecomes(out.mgr, storeOk, indexOk)
    /\ UNCHANGED <<putVars, ticks, reader, signal, lastOp, setting, conf, httpVars>>

(***************************************************************************)
(* Initial states.  Each specification exercises one part of the program   *)
(* and leaves the variables of the other parts at rest.                    *)
(***************************************************************************)
PutIdle ==
    /\ uc = None
    /\ files = <<>>
    /\ stream = [size |-> 0, md5 |-> "", sha1 |-> ""]
    /\ put = IdlePut
    /\ ctxCanceled = FALSE

DbIdle ==
    /\ taskItems = <<>>
    /\ taskRecords = {}
    /\ ticks = <<>>
    /\ reader = None
    /\ signal = FALSE
    /\ lastOp = NoOp

MgrIdle ==
    /\ mgr = NoManager
    /\ setting = None
    /\ conf = [Workers |-> 0, MaxRetry |-> 0]

HttpIdle ==
    /\ req = None
    /\ resp = None

InitCaches ==
    {None}
    \cup {Some(NewUploadCache(p)) : p \in {"", "c1"}}
    \cup {Some(RegisterTemp(NewUploadCache(p), t)) : p \in {"", "c1"}, t \in {"t1"}}
    \cup {Some(MarkKeep(RegisterTemp(NewUploadCache(""), "t1"), "/w/./t1"))}

\* A sidecar left by an earlier upload of a one-byte file, without a SHA1 extra.
OldSidecar == MarshalJSON(NewMetadata(1, TrueMD5))

InitPut ==
    /\ uc \in InitCaches
    /\ files \in {[p \in {} |-> None], [p \in {"/w/t1.meta"} |-> Some(OldSidecar)]}
    /\ stream \in [size : 0..MaxSize, md5 : {"", TrueMD5}, sha1 : {"", "short", TrueSHA1}]
    /\ put = IdlePut
    /\ ctxCanceled = FALSE
    /\ DbIdle
    /\ MgrIdle
    /\ HttpIdle

NextPut ==
    \/ PutBegin
    \/ \E cacheOk \in BOOLEAN, writeOk \in BOOLEAN : PutHashPhase(cacheOk, writeOk)
    \/ \E ok \in BOOLEAN, ps \in 1..MaxPartSize : PutPre(ok, ps)
    \/ \E o \in {"err", "finish", "continue"} : PutUpHash(o)
    \/ \E readOk \in BOOLEAN, o \in {"err", "finish", "md5"} : PutPart(readOk, o)
    \/ \E ok \in BOOLEAN : PutCommit(ok)
    \/ \E ok \in BOOLEAN : PutFinish(ok)
    \/ CancelCtx
    \/ \E md5 \in {"", TrueMD5}, sha1 \in {"", "short", TrueSHA1} : PutRetry(md5, sha1)

SpecPut == InitPut /\ [][NextPut]_vars

(***************************************************************************)
(* The upload cache on its own: a cache is constructed and its operations  *)
(* are called in any order with any path; the sidecar files outlive the    *)
(* cache.  lastOp is the history of the calls: the last call and its       *)
(* result, the call before it, the arguments of MarkKeep on this cache so  *)
(* far, and the last metadata that SaveMetadata saved without error, with  *)
(* the sidecar path it went to and whether a cache was constructed since.  *)
(***************************************************************************)
MaxCacheOps == 4    \* calls on upload caches in one run

CachePaths == {"", "t1", "/w/./t1", "c1"}
KeepPaths == CachePaths \cup {"."}
MetadataKeys == {"", "k1", " k1"}

\* The instants time.Now() can report.
Times == {1, 2}

\* A sidecar written by an earlier version, with the legacy keys.
LegacySidecar ==
    [size |-> 1, slice_size |-> 0, content_md5 |-> TrueMD5, slice_md5 |-> "",
     block_list |-> None, extras |-> None, upload_url |-> "u0", file_sha1 |-> "s0"]

MetadataValues ==
    {NewMetadata(1, TrueMD5),
     [SetExtra(NewMetadata(2, TrueMD5), quarkMetaSHA1Key, TrueSHA1)
         EXCEPT !.BlockList = Some(<<"b1", "b2">>), !.SliceSize = 1],
     UnmarshalJSON(LegacySidecar)}

CacheNoOp ==
    [op |-> "none", n |-> 0, marked |-> {}, saved |-> None, ok |-> TRUE,
     err |-> "", meta |-> None, prev |-> "none", prevOk |-> TRUE, key |-> ""]

CacheCall(op) ==
    /\ IsSome(uc)
    /\ lastOp.n < MaxCacheOps
    /\ UNCHANGED <<stream, put, ctxCanceled, taskItems, taskRecords, ticks,
                   reader, signal, mgrVars, httpVars>>

Called(op, ok, err, meta) ==
    [lastOp EXCEPT !.op = op, !.n = @ + 1, !.ok = ok, !.err = err, !.meta = meta,
                   !.prev = lastOp.op, !.prevOk = lastOp.ok]

CacheNew(path, key, now) ==
    /\ CacheCall("NewUploadCache")
    /\ uc' = Some(WithMetadataKey(NewUploadCache(path), key, now))
    /\ files' = files
    /\ lastOp' = [Called("NewUploadCache", TRUE, "", None)
                    EXCEPT !.marked = {}, !.key = key,
                           !.saved = IF IsSome(@) THEN Some([Get(@) EXCEPT !.fresh = TRUE])
                                     ELSE @]

CacheSetCachedPath(path) ==
    /\ CacheCall("SetCachedPath")
    /\ uc' = Some(SetCachedPath(Get(uc), path))
    /\ files' = files
    /\ lastOp' = Called("SetCachedPath", TRUE, "", None)

CacheRegisterTemp(path) ==
    /\ CacheCall("RegisterTemp")
    /\ uc' = Some(RegisterTemp(Get(uc), path))
    /\ files' = files
    /\ lastOp' = Called("RegisterTemp", TRUE, "", None)

CacheMarkKeep(path) ==
    /\ CacheCall("MarkKeep")
    /\ uc' = Some(MarkKeep(Get(uc), path))
    /\ files' = files
    /\ lastOp' = [Called("MarkKeep", TRUE, "", None) EXCEPT !.marked = @ \cup {path}]

CacheSave(meta, writeOk) ==
    /\ CacheCall("SaveMetadata")
    /\ LET out == SaveMetadata(Get(uc), files, meta, writeOk)
       IN  /\ uc' = Some(out.u)
           /\ files' = out.fs
           /\ lastOp' = [Called("SaveMetadata", ~out.err,
                                IF out.err THEN "write" ELSE "", None)
                           EXCEPT !.saved = IF out.err THEN None
                                            ELSE Some([meta |-> meta, fresh |-> FALSE,
                                                       path |-> metadataPathLocked(out.u),
                                                       key |-> lastOp.key])]

CacheSaveNil(removeOk) ==
    /\ CacheCall("SaveMetadata(nil)")
    /\ LET out == SaveMetadataNil(Get(uc), files, removeOk)
       IN  /\ uc' = Some(out.u)
           /\ files' = out.fs
           /\ lastOp' = [Called("SaveMetadata(nil)", ~out.err,
                                IF out.err THEN "remove" ELSE "", None)
                           EXCEPT !.saved = None]

\* readOk is the outcome of os.ReadFile on a file that exists.
CacheLoad(readOk) ==
    /\ CacheCall("LoadMetadata")
    /\ LET out == LoadMetadata(Get(uc), files)
           read == /\ ~IsSome(Get(uc).metadata)
                   /\ IsSome(FileAt(files, metadataPathLocked(Get(uc))))
       IN  IF read /\ ~readOk
           THEN /\ uc' = uc
                /\ lastOp' = Called("LoadMetadata", FALSE, "read", None)
           ELSE /\ uc' = Some(out.u)
                /\ lastOp' = Called("LoadMetadata", out.ok, out.err, out.meta)
    /\ files' = files

InitCache ==
    /\ \E p \in {"", "c1"}, k \in MetadataKeys, now \in Times :
          /\ uc = Some(WithMetadataKey(NewUploadCache(p), k, now))
          /\ lastOp = [CacheNoOp EXCEPT !.key = k]
    /\ files \in {[p \in {} |-> None],
                  [p \in {"/w/t1.meta"} |-> Some(LegacySidecar)],
                  [p \in {metadataPathForKey("k1", 1)} |-> Some(LegacySidecar)]}
    /\ stream = [size |-> 0, md5 |-> "", sha1 |-> ""]
    /\ put = IdlePut
    /\ ctxCanceled = FALSE
    /\ taskItems = <<>>
    /\ taskRecords = {}
    /\ ticks = <<>>
    /\ reader = None
    /\ signal = FALSE
    /\ MgrIdle
    /\ HttpIdle

NextCache ==
    \/ \E p \in {"", "c1"}, k \in MetadataKeys, now \in Times : CacheNew(p, k, now)
    \/ \E p \in CachePaths : CacheSetCachedPath(p)
    \/ \E p \in CachePaths : CacheRegisterTemp(p)
    \/ \E p \in KeepPaths : CacheMarkKeep(p)
    \/ \E m \in MetadataValues, writeOk \in BOOLEAN : CacheSave(m, writeOk)
    \/ \E removeOk \in BOOLEAN : CacheSaveNil(removeOk)
    \/ \E readOk \in BOOLEAN : CacheLoad(readOk)

SpecCache == InitCache /\ [][NextCache]_vars


(***************************************************************************)
(* The persistence layer on its own: writers of both kinds are called with *)
(* arbitrary snapshots, their database statements succeed or fail, and     *)
(* readers are obtained and called at any moment.                          *)
(***************************************************************************)
Alice == User(1, "alice", 2)

TaskC1 == Task("c1", "a", Some(Alice), StatePending, Num(0))
TaskC1Running == Task("c1", "a", Some(Alice), StateRunning, Num(50))
TaskC2 == Task("c2", "b", None, StateSucceeded, Num(100))

WriterInputs ==
    {Bytes("", <<>>), Bytes("null", <<>>), Bytes("garbage", <<>>), EmptyArray,
     JsonArray(<<TaskC1>>), JsonArray(<<TaskC1Running, TaskC2>>)}

\* The database a process finds at start: empty, or as an earlier run left it.
PriorItems == {<<>>, [k \in Kinds |-> JsonArray(<<TaskC1>>)]}

InitPersist ==
    /\ \E prior \in PriorItems, createOk \in BOOLEAN :
          /\ taskItems = initTasks(prior, createOk)
          /\ taskRecords = UNION {UpsertTaskRecordsFromTasks({}, k,
                                     UnmarshalTasks(prior[k]).tasks, TRUE) : k \in DOMAIN prior}
    /\ ticks = <<>>
    /\ reader = None
    /\ signal = FALSE
    /\ lastOp = NoOp
    /\ PutIdle
    /\ MgrIdle
    /\ HttpIdle

NextPersist ==
    \/ \E k \in Kinds, d \in WriterInputs, ok \in BOOLEAN : TickSnapshot(k, d, ok)
    \/ \E k \in Kinds, d \in WriterInputs, ok \in BOOLEAN : TickDisabled(k, d, ok)
    \/ \E i \in 1..MaxTicks, ok \in BOOLEAN : TickIndex(i, ok)
    \/ \E k \in Kinds, findOk \in BOOLEAN : GetReader(k, findOk)
    \/ ReadHeld
    \/ FireSignal

SpecPersist == InitPersist /\ [][NextPersist]_vars

(***************************************************************************)
(* The routes on their own: a manager holding some tasks, the index as the *)
(* last synchronisation left it, and one request to serve.                 *)
(***************************************************************************)
Bob == User(2, "bob", 0)

Timed(task, start, end) == [task EXCEPT !.StartTime = start, !.EndTime = end]

ListTasks ==
    {TaskC1,
     Timed(Task("c2", "ba", Some(Bob), StateRunning, Num(50)), Some(1), None),
     Timed(Task("c3", "a", None, StateCanceled, NaN), Some(1), Some(2)),
     Timed(Task("c4", "b", Some(Alice), StateSucceeded, Num(100)), Some(2), Some(3)),
     Timed(Task("c5", "b", Some(Bob), StateFailed, Num(50)), Some(1), Some(3))}

ListPopulations ==
    {ListTasks, {t \in ListTasks : t.ID \in {"c1", "c3"}},
     {t \in ListTasks : t.ID \in {"c3", "c5"}},
     {t \in ListTasks : t.ID \in {"c2", "c4", "c5"}}, {}}

\* A manager holding the given tasks: the pending ones queued, the running held.
ManagerWith(kind, tasks, works, maxRetry) ==
    LET ids == {t.ID : t \in tasks}
        byID == SortSet(tasks, LAMBDA a, b : StrRank(a.ID) < StrRank(b.ID))
    IN  [kind |-> kind,
         tasks |-> [id \in ids |-> CHOOSE t \in tasks : t.ID = id],
         queue |-> SelectSeq([i \in 1..Len(byID) |-> byID[i].ID],
                             LAMBDA id : \E t \in tasks :
                                            t.ID = id /\ t.State = StatePending),
         held |-> {t.ID : t \in {x \in tasks : x.State = StateRunning}},
         workers |-> works, maxRetry |-> maxRetry,
         retry |-> [id \in ids |-> 0], runs |-> [id \in ids |-> 0]]

\* The users getUserInfo can report: an administrator and ordinary users.
Callers == {Caller(3, TRUE), Caller(1, FALSE), Caller(2, FALSE), Caller(0, FALSE)}

ListRequests ==
    {[route |-> r, caller |-> c, tid |-> "", page |-> p, page_size |-> ps,
      order_by |-> ob, order |-> o, mine |-> mi, regex |-> re, keyword |-> ""] :
        r \in ListRoutes, c \in {None} \cup {Some(u) : u \in Callers},
        p \in {"", "2", "0"}, ps \in {"", "1", "2", "201"},
        ob \in {"", "Creator", "state", "progress"}, o \in {"", "desc"},
        mi \in {"", "true"}, re \in {"", "a", "^a", "["}}

\* List requests that carry a keyword parameter and no regex.
KeywordRequests ==
    {[route |-> r, caller |-> c, tid |-> "", page |-> "", page_size |-> "",
      order_by |-> "", order |-> "", mine |-> "", regex |-> "", keyword |-> k] :
        r \in ListRoutes, c \in {Some(u) : u \in Callers}, k \in {"a", "b"}}

\* Bodies of batch requests: arrays of IDs, and one that does not bind.
BatchBodies ==
    {[ok |-> TRUE, tids |-> ids] :
        ids \in {<<>>, <<"c1", "missing", "c2">>, <<"c4", "c5">>, <<"c5", "c3", "c4">>,
                 <<"c5", "c5">>}}
    \cup {[ok |-> FALSE, tids |-> <<>>]}

BatchRequests ==
    {[route |-> r, caller |-> c, tid |-> "", body |-> b] :
        r \in BatchRoutes, c \in {None} \cup {Some(u) : u \in Callers}, b \in BatchBodies}

ClearRequests ==
    {Request(r, c, "") : r \in ClearRoutes, c \in {None} \cup {Some(u) : u \in Callers}}

\* tasks is the handler's local slice: None until GetByCondition has returned.
RetryFailedRequests ==
    {[route |-> "retry_failed", caller |-> c, tid |-> "", tasks |-> None] :
        c \in {None} \cup {Some(u) : u \in Callers}}

TargetedRequests ==
    {Request(r, c, tid) :
        r \in TargetedRoutes, c \in {None} \cup {Some(u) : u \in Callers},
        tid \in {"c1", "c3", "missing"}}

InitHttp ==
    /\ \E pop \in ListPopulations, kind \in {"copy", "upload"} :
          /\ mgr = ManagerWith(kind, pop, 2, 0)
          /\ taskRecords = UpsertTaskRecordsFromTasks({}, kind,
                              SortSet(pop, LAMBDA a, b : StrRank(a.ID) < StrRank(b.ID)),
                              TRUE)
    /\ setting = None
    /\ conf = [Workers |-> 2, MaxRetry |-> 0]
    /\ req \in {Some(q) : q \in ListRequests \cup KeywordRequests \cup TargetedRequests
                                \cup BatchRequests \cup ClearRequests
                                \cup RetryFailedRequests}
    /\ resp = None
    /\ taskItems = [k \in Kinds |-> EmptyArray]
    /\ ticks = <<>>
    /\ reader = None
    /\ signal = TRUE
    /\ lastOp = NoOp
    /\ PutIdle

NextHttp ==
    \/ \E nullsFirst \in BOOLEAN, dbOk \in BOOLEAN : ServeList(nullsFirst, dbOk)
    \/ \E storeOk \in BOOLEAN, indexOk \in BOOLEAN : ServeTargeted(storeOk, indexOk)
    \/ \E storeOk \in BOOLEAN, indexOk \in BOOLEAN : ServeBatch(storeOk, indexOk)
    \/ \E before \in SUBSET {t.ID : t \in ListTasks}, storeOk \in BOOLEAN :
          ServeClear(before, storeOk, TRUE)
    \/ \E order \in UNION {Orders(ids) : ids \in SUBSET {t.ID : t \in ListTasks}} :
          RetryFailedBegin(order)
    \/ RetryFailedStep(TRUE, TRUE)
    \/ RetryFailedEnd
    \/ \E r \in {"cancel", "delete", "retry"}, tid \in {t.ID : t \in ListTasks} :
          Meanwhile(r, Caller(3, TRUE), tid, TRUE, TRUE)

SpecHttp == InitHttp /\ [][NextHttp]_vars

\* The creator of the task a list entry stands for.
CreatorOfEntry(info) == mgr.tasks[info.ID].Creator

\* C1: every task in the response to a list request of a non-admin user with
\* id U has a creator, and that creator's id is U, whatever mine is and whatever
\* U is, on the indexed path and on the live path.
C1_NonAdminListsOnlyOwnTasks ==
    (/\ IsSome(req) /\ IsSome(resp)
     /\ Get(req).route \in ListRoutes
     /\ IsSome(Get(req).caller)
     /\ ~Get(Get(req).caller).Admin)
        => \A i \in 1..Len(Get(resp).content) :
              /\ IsSome(CreatorOfEntry(Get(resp).content[i]))
              /\ Get(CreatorOfEntry(Get(resp).content[i])).ID = Get(Get(req).caller).ID

(***************************************************************************)
(* The manager of the upload kind, which InitTaskManager gives no persist  *)
(* functions, driven by its workers, by the targeted routes and by changes *)
(* of its thread-number setting.                                           *)
(***************************************************************************)
MgrTasks ==
    {Task("c1", "a", Some(Alice), StatePending, Num(0)),
     Task("c2", "b", Some(Bob), StatePending, Num(0))}

\* Ownership is left to the routes on their own: here an administrator calls.
MgrCallers == {Caller(3, TRUE)}
MgrRoutes == {"cancel", "delete", "retry"}
ExecErrors == {"", "boom"}

InitMgr ==
    /\ conf \in [Workers : {MaxWorkers}, MaxRetry : {0, MaxRetryConf}]
    /\ setting = None
    /\ mgr = InitTaskManager("upload", setting, conf, <<>>)
    /\ HttpIdle
    /\ DbIdle
    /\ PutIdle

NextMgr ==
    \/ \E t \in MgrTasks : SubmitTask(t, TRUE, TRUE)
    \/ WorkerStart(TRUE, TRUE)
    \/ \E id \in {"c1", "c2"}, err \in ExecErrors : ExecReturn(id, err, TRUE, TRUE)
    \/ \E id \in {"c1", "c2"} : BackoffElapsed(id)
    \/ \E id \in {"c1", "c2"} : RetryRequeue(id)
    \/ \E id \in {"c1", "c2"} : ReconcileCanceled(id, TRUE, TRUE)
    \/ \E r \in MgrRoutes, c \in MgrCallers, tid \in {"c1", "c2"} :
          TargetedRequest(r, c, tid, TRUE, TRUE)
    \/ \E num \in {-1, 1, MaxWorkers} : SettingChanged(num)

SpecMgr == InitMgr /\ [][NextMgr]_vars

\* Executions return: a worker that holds a task eventually gets its result.
FairSpecMgr ==
    /\ SpecMgr
    /\ \A id \in {"c1", "c2"} :
          WF_vars(\E err \in ExecErrors : ExecReturn(id, err, TRUE, TRUE))

\* A step that serves POST /retry for the task of that ID.
RetryRequestFor(id) ==
    \E c \in MgrCallers : TargetedRequest("retry", c, id, TRUE, TRUE)

\* C6: a task in a terminal state changes state only in a step that serves a
\* retry request for it, and then to Pending; a retry request for a task in a
\* non-terminal state leaves the task's state and the pending queue as they were.
C6_TerminalLeftOnlyByRetry ==
    [][\A id \in {"c1", "c2"} :
          /\ (/\ HasTask(mgr, id) /\ HasTask(mgr', id)
              /\ StateOf(mgr, id) \in doneStates
              /\ StateOf(mgr', id) # StateOf(mgr, id))
                => (StateOf(mgr', id) = StatePending /\ RetryRequestFor(id))
          /\ (/\ HasTask(mgr, id)
              /\ StateOf(mgr, id) \notin doneStates
              /\ RetryRequestFor(id))
                => (/\ HasTask(mgr', id)
                    /\ StateOf(mgr', id) = StateOf(mgr, id)
                    /\ mgr'.queue = mgr.queue)]_vars

C6_Witness ==
    /\ IsSome(req) /\ IsSome(resp)
    /\ Get(req).route = "retry"
    /\ Get(resp).applied = "Retry"
    /\ Get(resp).was = StateFailed
    /\ HasTask(mgr, Get(req).tid)
    /\ StateOf(mgr, Get(req).tid) = StatePending
    /\ mgr.queue = <<Get(req).tid>>

\* A step in which the execution of the task of that ID returns an error.
ErrorReturnFor(id) == ExecReturn(id, "boom", TRUE, TRUE)

\* C7: an execution that returns an error with fewer than MaxRetry retries
\* used puts the task in WaitingRetry, from where it moves to BeforeRetry and
\* from there to Pending; with MaxRetry retries used it puts it in Failed.  A
\* task enters Failed in no other step, and it is executed at most MaxRetry + 1
\* times between user retries.
C7_RetryLadder ==
    [][\A id \in {"c1", "c2"} :
          (HasTask(mgr, id) /\ HasTask(mgr', id)) =>
              /\ (ErrorReturnFor(id) /\ StateOf(mgr, id) = StateRunning)
                    => StateOf(mgr', id) =
                           IF mgr.retry[id] < conf.MaxRetry THEN StateWaitingRetry
                           ELSE StateFailed
              /\ (StateOf(mgr', id) = StateWaitingRetry /\ StateOf(mgr, id) # StateWaitingRetry)
                    => (ErrorReturnFor(id) /\ mgr.retry[id] < conf.MaxRetry)
              /\ (StateOf(mgr', id) = StateFailed /\ StateOf(mgr, id) # StateFailed)
                    => (ErrorReturnFor(id) /\ mgr.retry[id] = conf.MaxRetry)
              /\ (StateOf(mgr, id) = StateWaitingRetry /\ StateOf(mgr', id) # StateWaitingRetry)
                    => StateOf(mgr', id) \in {StateBeforeRetry, StateCanceling}
              /\ (StateOf(mgr', id) = StateBeforeRetry /\ StateOf(mgr, id) # StateBeforeRetry)
                    => StateOf(mgr, id) = StateWaitingRetry
              /\ (StateOf(mgr, id) = StateBeforeRetry /\ StateOf(mgr', id) # StateBeforeRetry)
                    => StateOf(mgr', id) \in {StatePending, StateCanceling}
              /\ mgr'.runs[id] <= conf.MaxRetry + 1]_vars

C7_Witness ==
    /\ conf.MaxRetry = 1
    /\ HasTask(mgr, "c1")
    /\ StateOf(mgr, "c1") = StateFailed
    /\ mgr.runs["c1"] = 2
    /\ mgr.retry["c1"] = 1

\* C8: Cancel applied twice leaves what Cancel applied once leaves; a task in
\* Canceling moves to no state but Canceled, whatever its execution returns,
\* and a cancelled task moves to WaitingRetry, BeforeRetry or Pending only in a
\* step that serves a retry request for it; a cancelled task that a worker
\* holds eventually is Canceled, unless the user deletes it first.
C8_CancelIsFinal ==
    /\ [](\A id \in {"c1", "c2"} : Cancel(Cancel(mgr, id), id) = Cancel(mgr, id))
    /\ [][\A id \in {"c1", "c2"} :
            (HasTask(mgr, id) /\ HasTask(mgr', id)) =>
                /\ (StateOf(mgr, id) = StateCanceling /\ StateOf(mgr', id) # StateCanceling)
                      => StateOf(mgr', id) = StateCanceled
                /\ (/\ StateOf(mgr, id) \in {StateCanceling, StateCanceled}
                    /\ StateOf(mgr', id) \in {StateWaitingRetry, StateBeforeRetry,
                                              StatePending})
                      => RetryRequestFor(id)]_vars
    /\ \A id \in {"c1", "c2"} :
          (HasTask(mgr, id) /\ id \in mgr.held /\ StateOf(mgr, id) = StateCanceling)
              ~> (~HasTask(mgr, id) \/ StateOf(mgr, id) = StateCanceled)

C8_Witness ==
    /\ IsSome(req) /\ IsSome(resp)
    /\ Get(resp).applied = "Cancel"
    /\ Get(resp).was = StateRunning
    /\ HasTask(mgr, Get(req).tid)
    /\ StateOf(mgr, Get(req).tid) = StateCanceled
    /\ Get(req).tid \notin mgr.held

Running(m) == {id \in DOMAIN m.tasks : StateOf(m, id) = StateRunning}

InitRestart ==
    /\ conf \in [Workers : {1}, MaxRetry : 0..MaxRetryConf]
    /\ setting = None
    /\ taskItems = initTasks(<<>>, TRUE)
    /\ signal = TRUE
    /\ LET f == GetTaskPersistReadFunc(taskItems, "copy", TaskPersistant["copy"], TRUE)
           m == InitTaskManager("copy", setting, conf, ReadBy(f))
       IN  /\ reader = Some([kind |-> "copy", f |-> f])
           /\ mgr = m
           /\ taskRecords = syncTaskIndex({}, "copy", m, TRUE)
    /\ ticks = <<>>
    /\ lastOp = NoOp
    /\ HttpIdle
    /\ PutIdle

\* One task is submitted, with a progress that is a number or NaN (0/0 bytes).
RestartTasks ==
    {t \in MgrTasks : t.ID = "c1"} \cup {Task("c1", "a", Some(Alice), StatePending, NaN)}

NextRestart ==
    \/ \E t \in RestartTasks, storeOk \in BOOLEAN : SubmitTask(t, storeOk, TRUE)
    \/ WorkerStart(TRUE, TRUE)
    \/ \E err \in ExecErrors : ExecReturn("c1", err, TRUE, TRUE)
    \/ BackoffElapsed("c1")
    \/ RetryRequeue("c1")
    \/ RestartManager
    \/ \E findOk \in BOOLEAN, indexOk \in BOOLEAN : RestartProcess("copy", findOk, indexOk)

SpecRestart == InitRestart /\ [][NextRestart]_vars

\* The tasks the kind's snapshot row holds.
SnapshotTasks(items, kind) ==
    IF kind \in DOMAIN items THEN RangeOf(UnmarshalTasks(items[kind]).tasks) ELSE {}

\* C10: when the manager is constructed again with its persist functions, every
\* copy task the snapshot row holds is in the new manager, and is Pending there
\* if the snapshot did not record it as finished (also when it recorded Running).
C10_RestartRestoresPersisted ==
    [][(mgr.kind = "copy" /\ RestartManager)
          => \A t \in SnapshotTasks(taskItems, "copy") :
                /\ HasTask(mgr', t.ID)
                /\ t.State \notin doneStates => StateOf(mgr', t.ID) = StatePending]_vars

\* Whether the caller of request q may act on the task of that ID in manager m.
Owns(m, q) ==
    /\ HasTask(m, q.tid)
    /\ IsSome(m.tasks[q.tid].Creator)
    /\ Get(m.tasks[q.tid].Creator).ID = Get(q.caller).ID

\* C2: serving a targeted request of a non-admin caller for a tid that does
\* not exist, or for a task the caller does not own (a task with no creator
\* included), writes 404 "task not found" and applies no Cancel, Remove or
\* Retry to any task.
C2_NotOwnedLooksMissing ==
    [][(/\ IsSome(req) /\ resp = None /\ resp' # None
        /\ Get(req).route \in TargetedRoutes
        /\ IsSome(Get(req).caller)
        /\ ~Get(Get(req).caller).Admin
        /\ ~Owns(mgr, Get(req)))
          => (/\ Get(resp').status = 404
              /\ Get(resp').message = "task not found"
              /\ mgr' = mgr)]_vars

\* The path Put's deferred function would protect: the temp file, else the cached path.
CachePath(u) == IF u.tempFile # "" THEN u.tempFile ELSE u.cachedPath

\* C3: whenever Put has returned a non-nil error and the context's upload cache
\* has a temp file or a cached path, ShouldKeep of that path is true.
C3_ErrorReturnKeeps ==
    (put.pc = "returned" /\ Get(put.ret) # "nil" /\ IsSome(uc) /\ CachePath(Get(uc)) # "")
        => ShouldKeep(Get(uc), CachePath(Get(uc)))


C5_ReadAfterWriteReturnsSnapshot ==
    (lastOp.op = "read" /\ lastOp.afterWrite /\ TaskPersistant[lastOp.kind])
        => lastOp.same
\* The integers of the ten states.
StateInts == {StateInt(st) : st \in States}

\* C11: every task of the manager is in one of the ten states and has progress
\* 100 when it is Succeeded; every index row has the integer of one of the ten
\* states, a progress that is a number, and progress 100 when its state is
\* Succeeded; what getTaskInfo and recordsToInfos report for them is the same.
C11_StatesAndProgress ==
    /\ \A t \in GetAll(mgr) :
          /\ t.State \in States
          /\ t.State = StateSucceeded => t.Progress = Num(100)
          /\ getTaskInfo(t).State \in StateInts
          /\ ~IsNaN(getTaskInfo(t).Progress)
          /\ IsNaN(t.Progress) => getTaskInfo(t).Progress = Num(100)
          /\ t.State = StateSucceeded => getTaskInfo(t).Progress = Num(100)
    /\ \A r \in taskRecords :
          /\ r.State \in StateInts
          /\ ~IsNaN(r.Progress)
          /\ r.State = StateInt(StateSucceeded) => r.Progress = Num(100)
          /\ ~IsNaN(recordToInfo(r).Progress)
          /\ r.State = StateInt(StateSucceeded) => recordToInfo(r).Progress = Num(100)

\* A task submitted with NaN progress is running and its row says 100.
C11_WitnessNaN ==
    /\ \E t \in GetAll(mgr) : t.State = StateRunning /\ IsNaN(t.Progress)
    /\ \E r \in taskRecords : r.State = StateInt(StateRunning) /\ r.Progress = Num(100)

\* The states a list route is registered with.
RouteStates(route) == IF route = "undone" THEN undoneStates ELSE doneStates

\* The pages a client asks for in turn.
PageStrings == <<"1", "2", "3", "4", "5", "6">>

\* What the list route of the request at hand answers for page p of it.
ListPage(q, p, nullsFirst) ==
    taskListHandler(mgr, taskRecords, mgr.kind, UseIndex(mgr.kind),
                    RouteStates(q.route), [q EXCEPT !.page = PageStrings[p]],
                    nullsFirst, TRUE)

\* Whether a list request is one the handler serves: a user and a valid regex.
Listable(q) ==
    /\ q.route \in ListRoutes
    /\ IsSome(q.caller)
    /\ RegexCompiles(q.regex)

\* The tasks a list request's filter selects: those in the route's states,
\* of the caller where the listing is restricted to the owner (a creator ID
\* of 0 restricts nothing on the index), and matching the regex.
Matching(q) ==
    LET uid == Get(q.caller).ID
        restrictOwner == ParseBool(q.mine) \/ ~Get(q.caller).Admin
        indexed == UseIndex(mgr.kind) /\ q.regex = ""
        creatorID(t) == IF IsSome(t.Creator) THEN Get(t.Creator).ID ELSE 0
    IN  {t \in GetAll(mgr) :
            /\ t.State \in RouteStates(q.route)
            /\ (restrictOwner /\ ~(indexed /\ uid = 0)) => creatorID(t) = uid
            /\ q.regex # "" => MatchString(q.regex, t.Name)}

\* C12: for the tasks and the list request at hand, the pages 1, 2, ... of the
\* request, up to the first page past the matching tasks, which is empty, hold
\* every matching task exactly once and no other task, and every page reports
\* the number of matching tasks as its total; a response served is the page
\* asked for.
C12_PagesPartitionMatching ==
    (IsSome(req) /\ Listable(Get(req))) =>
        \A nullsFirst \in IF UseIndex(mgr.kind) THEN BOOLEAN ELSE {FALSE} :
            LET q == Get(req)
                matching == Matching(q)
                last == Cardinality(matching) + 1
                served == [p \in 1..last |-> ListPage(q, p, nullsFirst)]
                places(id) == {pi \in UNION {{<<p, i>> : i \in 1..Len(served[p].content)} :
                                                p \in 1..last} :
                                  served[pi[1]].content[pi[2]].ID = id}
            IN  /\ \A p \in 1..last :
                      /\ served[p].status = 200
                      /\ served[p].total = Cardinality(matching)
                      /\ \A i \in 1..Len(served[p].content) :
                            served[p].content[i].ID \in {t.ID : t \in matching}
                /\ served[last].content = <<>>
                /\ \A t \in matching : Cardinality(places(t.ID)) = 1
                /\ (IsSome(resp) /\ Get(resp).status = 200) =>
                      \E nf \in BOOLEAN :
                          Get(resp) = ListPage(q, parseTaskListQuery(q).page, nf)

\* Page 2 of a listing of three matching tasks, one to a page, was served.
C12_Witness ==
    /\ IsSome(req) /\ Listable(Get(req)) /\ IsSome(resp)
    /\ Get(req).page = "2" /\ Get(req).page_size = "1"
    /\ Cardinality(Matching(Get(req))) = 3
    /\ Get(resp).status = 200 /\ Len(Get(resp).content) = 1

\* Whether entry a may stand before entry b in a listing ordered by the key:
\* strings byte-wise, states by their integers, progress from high to low.
KeyInOrder(a, b, orderBy) ==
    CASE orderBy = "creator" -> StrRank(a.Creator) <= StrRank(b.Creator)
      [] orderBy = "state" -> a.State <= b.State
      [] orderBy = "progress" -> a.Progress.v >= b.Progress.v
      [] OTHER -> StrRank(a.Name) <= StrRank(b.Name)

\* C13: the entries of a list response stand in the order of the requested
\* key, in the requested direction, whatever the kind.
C13_OrderedAsRequested ==
    (IsSome(req) /\ Listable(Get(req)) /\ IsSome(resp) /\ Get(resp).status = 200) =>
        LET query == parseTaskListQuery(Get(req))
            content == Get(resp).content
        IN  \A i, j \in 1..Len(content) :
                i < j => IF query.reverse
                         THEN KeyInOrder(content[j], content[i], query.orderBy)
                         ELSE KeyInOrder(content[i], content[j], query.orderBy)

\* C14: a list request is answered from the index exactly when the kind has
\* one and the request has no regex, and a request with a keyword that is
\* answered from the index gets only entries whose name contains the keyword.
C14_IndexFiltersByKeyword ==
    (IsSome(req) /\ Listable(Get(req)) /\ IsSome(resp) /\ Get(resp).status = 200) =>
        /\ Get(resp).indexed <=> (UseIndex(mgr.kind) /\ Get(req).regex = "")
        /\ (Get(resp).indexed /\ Get(req).keyword # "") =>
              \A i \in 1..Len(Get(resp).content) :
                  Like(Get(resp).content[i].Name, Get(req).keyword)

\* The elements of a sequence.
Listed(tids) == {tids[i] : i \in 1..Len(tids)}

\* The listed IDs a batch request fails on: no such task, or the task of
\* another user or of no user when the caller is not an administrator.
NotFoundFor(m, q) ==
    {tid \in Listed(q.body.tids) :
        \/ ~HasTask(m, tid)
        \/ /\ ~Get(q.caller).Admin
           /\ \/ m.tasks[tid].Creator = None
              \/ Get(m.tasks[tid].Creator).ID # Get(q.caller).ID}

\* The batch route's action applied once to each task of a set, in the order
\* the IDs are first listed.
RECURSIVE ApplyOnce(_, _, _, _)
ApplyOnce(m, route, tids, ids) ==
    IF tids = <<>> THEN m
    ELSE IF Head(tids) \in ids
    THEN ApplyOnce(batchCallback(m, route, m.tasks[Head(tids)]), route, Tail(tids),
                   ids \ {Head(tids)})
    ELSE ApplyOnce(m, route, Tail(tids), ids)

\* C15: a batch request with a body of IDs is answered with the map that
\* sends exactly the missing and the not-owned IDs to "task not found", its
\* action is applied once to each other listed ID, and the manager is left as
\* those applications leave it (no unlisted task is touched).
C15_BatchAppliesToOwned ==
    [][(/\ IsSome(req) /\ resp = None /\ resp' # None
        /\ Get(req).route \in BatchRoutes
        /\ IsSome(Get(req).caller)
        /\ Get(req).body.ok)
          => LET q == Get(req)
                 bad == NotFoundFor(mgr, q)
                 good == Listed(q.body.tids) \ bad
             IN  /\ Get(resp').status = 200
                 /\ DOMAIN Get(resp').content = bad
                 /\ \A tid \in bad : Get(resp').content[tid] = "task not found"
                 /\ Listed(Get(resp').appliedTo) = good
                 /\ Len(Get(resp').appliedTo) = Cardinality(good)
                 /\ mgr' = ApplyOnce(mgr, q.route, q.body.tids, good)]_vars

\* The tasks /clear_done or /clear_succeeded is to remove for its caller:
\* those in the route's states that the caller created, or all of them for
\* an administrator.
ToClear(m, q) ==
    {t \in GetAll(m) :
        /\ t.State \in (IF q.route = "clear_done" THEN doneStates ELSE {StateSucceeded})
        /\ \/ Get(q.caller).Admin
           \/ (t.Creator # None /\ Get(t.Creator).ID = Get(q.caller).ID)}

\* C16: serving /clear_done or /clear_succeeded succeeds and removes exactly
\* the tasks it is to remove for its caller; every other task stays in the
\* manager as it was.
C16_ClearRemovesOwnFinished ==
    [][(/\ IsSome(req) /\ resp = None /\ resp' # None
        /\ Get(req).route \in ClearRoutes
        /\ IsSome(Get(req).caller))
          => LET gone == {t.ID : t \in ToClear(mgr, Get(req))}
             IN  /\ Get(resp').status = 200
                 /\ DOMAIN mgr'.tasks = (DOMAIN mgr.tasks) \ gone
                 /\ \A id \in DOMAIN mgr'.tasks : mgr'.tasks[id] = mgr.tasks[id]]_vars

\* The tasks /retry_failed is to retry for its caller.
FailedOwned(m, caller) ==
    {t \in GetAll(m) :
        /\ t.State = StateFailed
        /\ caller.Admin \/ (t.Creator # None /\ Get(t.Creator).ID = caller.ID)}

\* C17: /retry_failed of a caller takes up exactly the caller's failed tasks
\* (all failed tasks for an administrator), its steps move tasks from Failed
\* to Pending and change no other task's state, and it ends in success, also
\* with cancel, delete and retry requests served in between.
C17_RetryFailedOwned ==
    [][(/\ IsSome(req) /\ resp = None
        /\ Get(req).route = "retry_failed"
        /\ IsSome(Get(req).caller))
          => /\ resp' # None => Get(resp').status = 200
             /\ (Get(req).tasks = None /\ resp' = None) =>
                   {Get(Get(req').tasks)[i] : i \in 1..Len(Get(Get(req').tasks))}
                      = {t.ID : t \in FailedOwned(mgr, Get(Get(req).caller))}
             /\ (Get(req).tasks # None /\ req' # req) =>
                   \A id \in DOMAIN mgr.tasks :
                       /\ id \in DOMAIN mgr'.tasks
                       /\ mgr'.tasks[id].State # mgr.tasks[id].State =>
                             /\ mgr.tasks[id].State = StateFailed
                             /\ mgr'.tasks[id].State = StatePending
                             /\ mgr.tasks[id] \in FailedOwned(mgr, Get(Get(req).caller))]_vars

\* C18 as stated: ShouldKeep(p) holds exactly when the normalised p is the
\* cache's cachedPath or the normalisation of an argument of an earlier
\* MarkKeep.  The code takes the empty path for no path.
C18_KeptIffCachedOrMarked ==
    lastOp.op # "none" =>
        \A p \in KeepPaths :
            ShouldKeep(Get(uc), p)
                <=> \/ normalizePath(p) = Get(uc).cachedPath
                    \/ \E a \in lastOp.marked : normalizePath(a) = normalizePath(p)

\* C18: after any calls of NewUploadCache, SetCachedPath, RegisterTemp and
\* MarkKeep, ShouldKeep(p) of a path p that is not empty holds exactly when
\* the normalised p is the cache's cachedPath or the normalisation of a
\* non-empty argument of an earlier MarkKeep on this cache; ShouldKeep("")
\* is false.  So RegisterTemp makes no path kept and no mark is removed.
C18_KeptIffCachedOrMarkedNonEmpty ==
    lastOp.op # "none" =>
        /\ ~ShouldKeep(Get(uc), "")
        /\ \A p \in KeepPaths \ {""} :
              ShouldKeep(Get(uc), p)
                  <=> \/ normalizePath(p) = Get(uc).cachedPath
                      \/ \E a \in lastOp.marked \ {""} :
                            normalizePath(a) = normalizePath(p)

C18_WitnessTempNotKept ==
    /\ lastOp.op = "RegisterTemp"
    /\ Get(uc).tempFile = "/w/t1"
    /\ ~ShouldKeep(Get(uc), "t1")
    /\ ShouldKeep(Get(uc), "c1")
    /\ lastOp.marked = {"c1"}
    /\ Get(uc).cachedPath = ""

\* The elements of a block list; a nil slice and an empty one hold the same.
Blocks(m) == IF IsSome(m.BlockList) THEN Get(m.BlockList) ELSE <<>>

\* Equality of two metadata values field by field.
SameMetadata(a, b) ==
    /\ a.Size = b.Size
    /\ a.SliceSize = b.SliceSize
    /\ a.ContentMD5 = b.ContentMD5
    /\ a.SliceMD5 = b.SliceMD5
    /\ Blocks(a) = Blocks(b)
    /\ DOMAIN a.Extras = DOMAIN b.Extras
    /\ \A k \in DOMAIN b.Extras : GetExtra(a, k) = b.Extras[k]

\* LoadMetadata was called right after a SaveMetadata(m) without error on the
\* same cache, or on a cache constructed since whose sidecar path is the one
\* the metadata was written to.
LoadedAfterSave ==
    /\ lastOp.op = "LoadMetadata"
    /\ IsSome(lastOp.saved)
    /\ \/ lastOp.prev = "SaveMetadata"
       \/ /\ Get(lastOp.saved).fresh
          /\ Get(lastOp.saved).path # ""
          /\ metadataPathLocked(Get(uc)) = Get(lastOp.saved).path

\* C19: LoadMetadata after SaveMetadata(m), on the same cache or on a fresh one
\* with the same sidecar path, returns metadata equal to m field by field, all
\* extras of m included; it fails only when the sidecar cannot be read.
C19_LoadReturnsSaved ==
    LoadedAfterSave =>
        IF lastOp.ok
        THEN SameMetadata(Get(lastOp.meta), Get(lastOp.saved).meta)
        ELSE lastOp.err = "read"

C19_WitnessFreshCacheLegacyExtras ==
    /\ LoadedAfterSave
    /\ lastOp.ok
    /\ Get(lastOp.saved).fresh
    /\ DOMAIN Get(lastOp.saved).meta.Extras = {"upload_url", "file_sha1"}
    /\ GetExtra(Get(lastOp.meta), "upload_url") = "u0"
    /\ Get(uc).metadataPath = ""

\* C20: LoadMetadata right after a SaveMetadata(nil) without error on the same
\* cache fails with os.ErrNotExist, with or without a path or a metadata key
\* and whatever was saved or loaded before.
C20_LoadAfterSaveNilNotExist ==
    (/\ lastOp.op = "LoadMetadata"
     /\ lastOp.prev = "SaveMetadata(nil)"
     /\ lastOp.prevOk)
        => (~lastOp.ok /\ lastOp.err = "not exist")

C20_WitnessKeyedAfterSave ==
    /\ lastOp.op = "LoadMetadata"
    /\ lastOp.prev = "SaveMetadata(nil)"
    /\ lastOp.prevOk
    /\ lastOp.err = "not exist"
    /\ lastOp.n = MaxCacheOps
    /\ Get(uc).metadataPath # ""
    /\ DOMAIN files = {"/w/t1.meta"}

\* The calls Put has made in this attempt, as a set.
Calls == {put.calls[i] : i \in 1..Len(put.calls)}

\* C21: in a Put on the cache of an earlier attempt that failed after its hash
\* phase, the saved metadata is found: the stream is not hashed again, the
\* first call is the pre-upload handshake, and the hashes Put works with are
\* full hashes, those of the metadata where the stream carries none.
C21_RetrySkipsRehash ==
    (/\ put.hashedBefore
     /\ IsSome(uc)
     /\ put.pc # "idle")
        => /\ put.pc # "hash"
           /\ "CacheFullAndWriter" \notin Calls
           /\ put.calls # <<>> => Head(put.calls) = "upPre"
           /\ IsSome(Get(uc).metadata)
           /\ Get(Get(uc).metadata).Size = stream.size
           /\ put.md5Str = IF HashLen(stream.md5) = 32 THEN stream.md5
                           ELSE Get(Get(uc).metadata).ContentMD5
           /\ put.sha1Str = IF HashLen(stream.sha1) = 40 THEN stream.sha1
                            ELSE GetExtra(Get(Get(uc).metadata), quarkMetaSHA1Key)
           /\ HashLen(put.md5Str) = 32
           /\ HashLen(put.sha1Str) = 40
           /\ put.skippedHash = (HashLen(stream.md5) # 32 \/ HashLen(stream.sha1) # 40)

C21_WitnessResumedAtDedup ==
    /\ put.hashedBefore
    /\ IsSome(uc)
    /\ put.attempt = 2
    /\ put.skippedHash
    /\ stream.md5 = ""
    /\ stream.sha1 = "short"
    /\ put.calls = <<"upPre", "upHash">>
    /\ put.md5Str = TrueMD5
    /\ put.sha1Str = TrueSHA1

\* The part loop has ended without the finish sentinel, an error or a
\* cancellation: commit is due or was sent.
LoopEnded ==
    \/ put.pc = "parts" /\ put.left = 0
    \/ "upCommit" \in Calls

\* C22: the parts uploaded are numbered 1, 2, ... in order, each of the part
\* size except a shorter last one, with a progress value after each part that
\* is larger than the one before; when the loop has ended without the finish
\* sentinel, ceil(total / P) parts were uploaded, they add up to the stream, and
\* the last progress value reported is 100.
C22_PartsAndProgress ==
    put.pc \in {"parts", "finish", "returned"} =>
        /\ \A i \in 1..Len(put.parts) : put.parts[i].n = i
        /\ \A i \in 1..Len(put.progress) :
              /\ i > 1 => QuotLess(put.progress[i - 1], put.progress[i])
              /\ QuotLess(Quot(0, 1), put.progress[i])
              /\ ~QuotLess(Quot(100, 1), put.progress[i])
        /\ LoopEnded =>
              /\ Len(put.parts) = (stream.size + put.partSize - 1) \div put.partSize
              /\ Len(put.progress) = Len(put.parts)
              /\ Len(put.md5s) = Len(put.parts)
              /\ \A i \in 1..Len(put.parts) :
                    put.parts[i].len = IF i * put.partSize <= stream.size
                                       THEN put.partSize
                                       ELSE stream.size - (i - 1) * put.partSize
              /\ put.progress # <<>> => QuotIs(put.progress[Len(put.progress)], 100)

\* Three bytes in parts of two: two parts, the second short, then commit.
C22_WitnessShortLastPart ==
    /\ put.pc = "finish"
    /\ stream.size = 3
    /\ put.partSize = 2
    /\ put.parts = <<[n |-> 1, len |-> 2], [n |-> 2, len |-> 1]>>
    /\ Len(put.progress) = 2
    /\ QuotIs(put.progress[2], 100)

\* The call before the i-th call of this attempt was `name` and ended in one of
\* `results`.
After(i, name, results) ==
    /\ i > 1
    /\ put.calls[i - 1] = name
    /\ put.results[i - 1] \in results

\* C23: the backend is called in the order pre-upload, hash dedup, parts,
\* commit, finish.  Pre-upload is the first backend call; the hash endpoint
\* follows a pre-upload that succeeded; a part follows a dedup that did not
\* report the file present or a part that did not return the finish sentinel;
\* commit follows the last of all the parts (or the dedup, for an empty
\* stream); finish follows a commit that succeeded; and nothing is called after
\* a dedup hit or a finish sentinel.
C23_BackendCallOrder ==
    /\ Len(put.results) = Len(put.calls)
    /\ \A i \in 1..Len(put.calls) :
          /\ put.calls[i] = "upPre" =>
                i = 1 \/ After(i, "CacheFullAndWriter", {"ok"})
          /\ put.calls[i] = "upHash" => After(i, "upPre", {"ok"})
          /\ put.calls[i] = "upPart" =>
                After(i, "upHash", {"continue"}) \/ After(i, "upPart", {"md5"})
          /\ put.calls[i] = "upCommit" =>
                /\ After(i, "upHash", {"continue"}) \/ After(i, "upPart", {"md5"})
                /\ Cardinality({j \in 1..i : put.calls[j] = "upPart"})
                      = (stream.size + put.partSize - 1) \div put.partSize
          /\ put.calls[i] = "upFinish" => After(i, "upCommit", {"ok"})
          /\ put.results[i] \in {"finish", "err"} => i = Len(put.calls)

C23_WitnessSentinelEndsPut ==
    /\ put.pc = "returned"
    /\ put.ret = Some("nil")
    /\ put.calls = <<"CacheFullAndWriter", "upPre", "upHash", "upPart", "upPart">>
    /\ put.results[5] = "finish"
    /\ put.left > 0

BackendUploads == {"upPart", "upCommit", "upFinish"}

\* C24 as stated: once the context is cancelled, Put calls none of part,
\* commit and finish any more.  The token is checked in the part loop only.
C24_NothingSentAfterCancel ==
    [][(ctxCanceled /\ Len(put'.calls) > Len(put.calls))
          => put'.calls[Len(put'.calls)] \notin BackendUploads]_vars

\* C24: the token is checked before each part read.  When the context is
\* cancelled and a part is left to read, Put reads and uploads no further part
\* and returns the context's error; and a Put that returned the context's error
\* has sent neither commit nor finish.
C24_CancelSeenBeforeRead ==
    [][/\ (ctxCanceled /\ put.pc = "parts" /\ put.left > 0 /\ put' # put)
           => /\ put'.pc = "returned"
              /\ put'.ret = Some("context canceled")
              /\ put'.calls = put.calls
              /\ put'.parts = put.parts
              /\ put'.left = put.left
       /\ put'.ret = Some("context canceled")
           => /\ "upCommit" \notin {put'.calls[i] : i \in 1..Len(put'.calls)}
              /\ "upFinish" \notin {put'.calls[i] : i \in 1..Len(put'.calls)}]_vars

\* Cancelled after the first part of three: Put returned with two parts unread.
C24_WitnessCancelledMidway ==
    /\ put.pc = "returned"
    /\ put.ret = Some("context canceled")
    /\ ctxCanceled
    /\ Len(put.parts) = 1
    /\ put.left = 2
    /\ Calls \cap {"upCommit", "upFinish"} = {}

\* C25: when Put has returned nil, the keep set of the upload cache is the one
\* it was when Put was called.
C25_SuccessLeavesKeepSet ==
    (/\ put.pc = "returned"
     /\ put.ret = Some("nil")
     /\ IsSome(uc))
        => Get(uc).keep = put.keepBefore

\* After a failed first attempt marked the temp file, a second attempt that
\* ends in a dedup hit adds nothing to the keep set.
C25_WitnessRetryDedup ==
    /\ put.pc = "returned"
    /\ put.ret = Some("nil")
    /\ put.attempt = 2
    /\ IsSome(uc)
    /\ Get(uc).keep = {"/w/t1"}
    /\ put.keepBefore = {"/w/t1"}
    /\ put.results[Len(put.results)] = "finish"

\* C26: when CacheFullAndWriter returns an error, Put returns it without having
\* called the pre-upload endpoint, without saving metadata (in memory or in
\* the sidecar) and without a new mark in the keep set.
C26_HashFailureMarksNothing ==
    [][(put.pc = "hash" /\ put'.ret = Some("cache error"))
          => /\ put'.pc = "returned"
             /\ "upPre" \notin {put'.calls[i] : i \in 1..Len(put'.calls)}
             /\ files' = files
             /\ IsSome(uc) => /\ Get(uc').metadata = Get(uc).metadata
                              /\ Get(uc').keep = Get(uc).keep]_vars

RowsOf(rows, kind) == {r \in rows : r.Type = kind}

\* The row r of a kind carries the fields of the task t.
Carries(r, kind, t) ==
    /\ r.TaskID = t.ID /\ r.Type = kind /\ r.Name = t.Name
    /\ r.Creator = (IF IsSome(t.Creator) THEN Get(t.Creator).Username ELSE "")
    /\ r.CreatorID = (IF IsSome(t.Creator) THEN Get(t.Creator).ID ELSE 0)
    /\ r.CreatorRole = (IF IsSome(t.Creator) THEN Get(t.Creator).Role ELSE -1)
    /\ r.State = StateInt(t.State) /\ r.Status = t.Status
    /\ r.Progress = (IF IsNaN(t.Progress) THEN Num(100) ELSE t.Progress)
    /\ r.StartTime = t.StartTime /\ r.EndTime = t.EndTime
    /\ r.TotalBytes = t.TotalBytes /\ r.Error = t.Err

\* The row of a kind that carries the fields of the task t.
RowCarrying(kind, t) ==
    [TaskID |-> t.ID, Type |-> kind, Name |-> t.Name,
     Creator |-> IF IsSome(t.Creator) THEN Get(t.Creator).Username ELSE "",
     CreatorID |-> IF IsSome(t.Creator) THEN Get(t.Creator).ID ELSE 0,
     CreatorRole |-> IF IsSome(t.Creator) THEN Get(t.Creator).Role ELSE -1,
     State |-> StateInt(t.State), Status |-> t.Status,
     Progress |-> IF IsNaN(t.Progress) THEN Num(100) ELSE t.Progress,
     StartTime |-> t.StartTime, EndTime |-> t.EndTime,
     TotalBytes |-> t.TotalBytes, Error |-> t.Err]

\* The rows of the kind are one row per task of tasks, carrying its fields.
RowPerTask(rows, kind, tasks) ==
    /\ RowsOf(rows, kind) = {RowCarrying(kind, tasks[i]) : i \in 1..Len(tasks)}
    /\ Cardinality(RowsOf(rows, kind)) = Cardinality(IDsOf(tasks))

OtherKindsKept(kind) ==
    \A k \in Kinds \ {kind} : RowsOf(taskRecords', k) = RowsOf(taskRecords, k)

\* The step is a call of the writer of a kind without persistence.
DisabledTicked ==
    /\ lastOp'.op = "tick"
    /\ ~TaskPersistant[lastOp'.kind]
    /\ reader' = reader
    /\ signal' = signal
    /\ <<taskRecords', lastOp'>> # <<taskRecords, lastOp>>

\* The step is the first statement of the writer of a kind with persistence,
\* and it succeeded: the call goes on to its index update.
SnapshotTicked == Len(ticks') = Len(ticks) + 1

\* The step is the index update that ends a call of that writer.
IndexTicked == Len(ticks') = Len(ticks) - 1

\* The tasks the writer's last call deserialised from its input.
TickedTasks == UnmarshalTasks(lastOp'.data).tasks

\* C27: the writer of a kind without persistence leaves task_items alone and
\* replaces the kind's index rows by the tasks of the snapshot; the writer of a
\* kind with persistence writes the snapshot to the kind's task_items row and
\* then replaces the index rows; and when the index update fails, or the
\* snapshot cannot be deserialised, the writer still returns no error.
C27_CombinedWriter ==
    [][/\ DisabledTicked =>
             /\ taskItems' = taskItems
             /\ ~lastOp'.err
             /\ IF lastOp'.indexed
                THEN RowPerTask(taskRecords', lastOp'.kind, TickedTasks)
                ELSE taskRecords' = taskRecords
       /\ SnapshotTicked =>
             LET t == ticks'[Len(ticks')]
             IN  /\ TaskPersistant[t.kind]
                 /\ t.kind \in DOMAIN taskItems => taskItems'[t.kind] = t.content
                 /\ \A k \in DOMAIN taskItems \ {t.kind} : taskItems'[k] = taskItems[k]
                 /\ taskRecords' = taskRecords
       /\ IndexTicked =>
             /\ taskItems' = taskItems
             /\ ~lastOp'.err
             /\ IF lastOp'.indexed
                THEN RowPerTask(taskRecords', lastOp'.kind, TickedTasks)
                ELSE taskRecords' = taskRecords]_vars

\* A kind without persistence was re-indexed from a snapshot of two tasks while
\* its task_items row stayed empty.
C27_WitnessDisabledReindexed ==
    /\ lastOp.op = "tick"
    /\ lastOp.kind = "move"
    /\ lastOp.indexed
    /\ ~lastOp.err
    /\ IndexIDs(taskRecords, "move") = {"c1", "c2"}
    /\ "move" \in DOMAIN taskItems
    /\ taskItems["move"] = EmptyArray

\* C28: a read of a kind's snapshot reader has returned only after
\* StoragesLoadSignal fired, for kinds with and without persistence.
C28_ReadsWaitForSignal ==
    lastOp.op = "read" => signal

\* C29: UpsertTaskRecordsFromTasks(kind, tasks), where it succeeds, leaves as
\* rows of the kind one row per task of tasks with that task's fields and the
\* rows of other kinds as they were; where it fails, all rows as they were.
C29_UpsertReplacesKind ==
    [][((DisabledTicked \/ IndexTicked) /\ UnmarshalTasks(lastOp'.data).ok) =>
          IF lastOp'.indexed
          THEN /\ RowPerTask(taskRecords', lastOp'.kind, TickedTasks)
               /\ OtherKindsKept(lastOp'.kind)
          ELSE taskRecords' = taskRecords]_vars

\* The rows of copy were replaced by those of a snapshot of two tasks, c1 now
\* Running, while the row of move stayed.
C29_WitnessReplacedBesideOther ==
    /\ lastOp.op = "tick"
    /\ lastOp.kind = "copy"
    /\ lastOp.indexed
    /\ \E r \in RowsOf(taskRecords, "copy") : Carries(r, "copy", TaskC1Running)
    /\ \E r \in RowsOf(taskRecords, "copy") : Carries(r, "copy", TaskC2)
    /\ Cardinality(RowsOf(taskRecords, "copy")) = 2
    /\ \E r \in RowsOf(taskRecords, "move") : Carries(r, "move", TaskC1)

\* The inputs that clear a kind.
ClearingInputs == {Bytes("", <<>>), Bytes("null", <<>>), EmptyArray}

\* The store holds no task of the kind: its row, if any, is "[]", and so is
\* what a reader obtained now returns.
NoTaskStored(items, kind) ==
    /\ kind \in DOMAIN items => items[kind] = EmptyArray
    /\ GetTaskPersistReadFunc(items, kind, TaskPersistant[kind], TRUE).data = EmptyArray

MaxListOps == 1     \* calls of ListTaskRecords in one run
MaxReplaces == 1    \* index updates committed in one run

ListNoOp ==
    [op |-> "none", n |-> 0, replaced |-> 0, args |-> <<>>, offset |-> 0,
     limit |-> 0, records |-> <<>>, total |-> 0, matching |-> 0, err |-> FALSE]

\* The arguments a caller of the db package can pass.
ListArgs ==
    [taskType : {"copy"}, states : {{}, {StateSucceeded}},
     creatorID : {0, 1}, keyword : {"", "a"},
     page : {0, 1, 2}, pageSize : {0, 1, 2, 201}]

\* The first query of a call, tx.Count; on its error the call returns.
ListCount(a, dbOk) ==
    /\ req = None
    /\ lastOp.n < MaxListOps
    /\ IF dbOk
       THEN /\ req' = Some([args |-> a,
                            total |-> listCount(taskRecords, a.taskType, a.states,
                                                a.creatorID, a.keyword)])
            /\ lastOp' = [ListNoOp EXCEPT !.n = lastOp.n, !.replaced = lastOp.replaced]
       ELSE /\ req' = None
            /\ lastOp' = [ListNoOp EXCEPT !.op = "ListTaskRecords", !.n = lastOp.n + 1,
                                          !.replaced = lastOp.replaced,
                                          !.args = a, !.err = TRUE]
    /\ UNCHANGED <<taskRecords, taskItems, ticks, reader, signal, resp>>
    /\ UNCHANGED <<putVars, mgrVars>>

\* The second query of the call, Find, and the call's return.
ListFind(nullsFirst, dbOk) ==
    /\ req # None
    /\ LET a == Get(req).args
           pg == listPaging(a.page, a.pageSize)
       IN  lastOp' = [lastOp EXCEPT
                         !.op = "ListTaskRecords", !.n = @ + 1, !.args = a,
                         !.offset = pg.offset, !.limit = pg.limit,
                         !.records = IF dbOk
                                     THEN listFind(taskRecords, a.taskType, a.states,
                                                   a.creatorID, a.keyword, a.page,
                                                   a.pageSize, nullsFirst)
                                     ELSE <<>>,
                         !.total = Get(req).total,
                         !.matching = listCount(taskRecords, a.taskType, a.states,
                                                a.creatorID, a.keyword),
                         !.err = ~dbOk]
    /\ req' = None
    /\ UNCHANGED <<taskRecords, taskItems, ticks, reader, signal, resp>>
    /\ UNCHANGED <<putVars, mgrVars>>

\* The index update of a persistence tick commits, or rolls back.
ListReplace(kind, tasks, ok) ==
    /\ lastOp.replaced < MaxReplaces
    /\ taskRecords' = UpsertTaskRecordsFromTasks(taskRecords, kind, tasks, ok)
    /\ lastOp' = [lastOp EXCEPT !.replaced = @ + 1]
    /\ UNCHANGED <<req, taskItems, ticks, reader, signal, resp>>
    /\ UNCHANGED <<putVars, mgrVars>>

\* The task lists the ticks of a copy or move manager index.
ListSnapshots == {<<>>, <<TaskC1>>, <<TaskC1Running, TaskC2>>}

InitList ==
    /\ \E copies \in ListSnapshots, moves \in {<<>>, <<TaskC1>>} :
          taskRecords = UpsertTaskRecordsFromTasks({}, "copy", copies, TRUE)
                        \cup UpsertTaskRecordsFromTasks({}, "move", moves, TRUE)
    /\ taskItems = <<>>
    /\ ticks = <<>>
    /\ reader = None
    /\ signal = TRUE
    /\ lastOp = ListNoOp
    /\ PutIdle
    /\ MgrIdle
    /\ HttpIdle

NextList ==
    \/ \E a \in ListArgs, dbOk \in BOOLEAN : ListCount(a, dbOk)
    \/ \E nullsFirst \in BOOLEAN, dbOk \in BOOLEAN : ListFind(nullsFirst, dbOk)
    \/ \E k \in {"copy", "move"}, t \in ListSnapshots, ok \in BOOLEAN : ListReplace(k, t, ok)

SpecList == InitList /\ [][NextList]_vars

\* The page size the specification gives a call: 20 below 1, at most 200.
CoercedSize(pageSize) ==
    IF pageSize < 1 THEN defaultTaskPageSize
    ELSE IF pageSize > maxTaskPageSize THEN maxTaskPageSize ELSE pageSize

\* C31: a call of ListTaskRecords that returned rows asked the database for
\* the page (page < 1 taken as 1) of the coerced page size (20 below 1, 200
\* above 200): its offset is (page-1)*pageSize, its limit at most 200, and it
\* returned no more rows than that; and parseTaskListQuery coerces the page
\* and page_size parameters of a request in the same way.
C31_ListCoercesPaging ==
    /\ (lastOp.op = "ListTaskRecords" /\ ~lastOp.err) =>
          LET a == lastOp.args
              page1 == IF a.page < 1 THEN 1 ELSE a.page
          IN  /\ lastOp.limit = CoercedSize(a.pageSize)
              /\ lastOp.offset = (page1 - 1) * CoercedSize(a.pageSize)
              /\ lastOp.limit <= maxTaskPageSize
              /\ Len(lastOp.records) <= lastOp.limit
    /\ \A p \in {"", "x", "-1", "0", "1", "2"}, ps \in {"", "x", "-1", "0", "2", "201"} :
          LET q == parseTaskListQuery([page |-> p, page_size |-> ps, order_by |-> "",
                                       order |-> "", mine |-> "", regex |-> ""])
          IN  /\ q.page = (IF Atoi(p).ok /\ Atoi(p).v >= 1 THEN Atoi(p).v ELSE 1)
              /\ q.pageSize = (IF Atoi(ps).ok THEN CoercedSize(Atoi(ps).v)
                               ELSE defaultTaskPageSize)

\* C38: the total a call of ListTaskRecords returned is the number of rows
\* that matched its filter in the table its page was read from, also when
\* index updates of the kind commit while the call runs; and the table a
\* query reads holds for each kind the rows of one whole snapshot, never the
\* kind emptied by a replacement that has not yet inserted.
C38_ListTotalMatchesPage ==
    /\ (lastOp.op = "ListTaskRecords" /\ ~lastOp.err) => lastOp.total = lastOp.matching
    /\ \A k \in {"copy", "move"} : \E t \in ListSnapshots : RowPerTask(taskRecords, k, t)

\* Sidecars of an earlier version: one or both legacy keys, with or without
\* an extras object that already holds another value for a legacy key.
LegacySidecars ==
    {[LegacySidecar EXCEPT !.upload_url = a, !.file_sha1 = b, !.extras = e] :
        a \in {"", "u0"}, b \in {"", "s0"},
        e \in {None, Some([x \in {"upload_url"} |-> "old"]),
               Some([x \in {quarkMetaSHA1Key} |-> TrueSHA1])}}

\* The legacy keys of sidecar j are in the extras of metadata m.
LegacyFolded(j, m) ==
    /\ j.upload_url # "" => GetExtra(m, "upload_url") = j.upload_url
    /\ j.file_sha1 # "" => GetExtra(m, "file_sha1") = j.file_sha1

\* C32: a LoadMetadata that reads a sidecar with the legacy keys upload_url or
\* file_sha1 returns, and keeps in memory, metadata whose extras hold those
\* values under the same names; no write of a sidecar emits a top-level
\* upload_url or file_sha1; and decoding, encoding and decoding a legacy
\* sidecar again gives the same extras.
C32_LegacyKeysFolded ==
    [][/\ (/\ lastOp'.op = "LoadMetadata"
           /\ lastOp'.n = lastOp.n + 1
           /\ lastOp'.ok
           /\ ~IsSome(Get(uc).metadata)) =>
             LET j == Get(FileAt(files, metadataPathLocked(Get(uc))))
             IN  /\ LegacyFolded(j, Get(lastOp'.meta))
                 /\ LegacyFolded(j, Get(Get(uc').metadata))
       /\ \A p \in DOMAIN files' :
             (IsSome(files'[p]) /\ FileAt(files, p) # files'[p]) =>
                 /\ Get(files'[p]).upload_url = ""
                 /\ Get(files'[p]).file_sha1 = ""
       /\ lastOp.n = 0 => \A j \in LegacySidecars :
             LET m == UnmarshalJSON(j)
                 again == UnmarshalJSON(MarshalJSON(m))
             IN  /\ LegacyFolded(j, m)
                 /\ LegacyFolded(j, again)
                 /\ again.Extras = m.Extras]_vars

\* A legacy sidecar was read, saved again in the new shape, and read by a
\* cache constructed afterwards, which finds both values in the extras.
C32_WitnessLegacyRewritten ==
    /\ lastOp.op = "LoadMetadata"
    /\ lastOp.ok
    /\ lastOp.n = 4
    /\ Get(uc).metadataPath = metadataPathForKey("k1", 1)
    /\ IsSome(FileAt(files, Get(uc).metadataPath))
    /\ Get(files[Get(uc).metadataPath]).upload_url = ""
    /\ Get(files[Get(uc).metadataPath]).file_sha1 = ""
    /\ IsSome(Get(files[Get(uc).metadataPath]).extras)
    /\ GetExtra(Get(lastOp.meta), "upload_url") = "u0"
    /\ GetExtra(Get(lastOp.meta), "file_sha1") = "s0"

\* C33: the sidecar path of a cache constructed with a non-empty metadata key
\* is <tempDir>/upload-<safe(key)>.meta in every state, safe replacing every
\* character outside [A-Za-z0-9_-] by '_', whatever was registered, marked,
\* saved or loaded since; the sidecar path of a cache without a key is its
\* current path (the temp file if set, else the cached path) with ".meta".
C33_MetadataPathFixed ==
    IsSome(uc) =>
        IF lastOp.key # ""
        THEN metadataPathLocked(Get(uc))
                = TempDir \o "/upload-" \o safeRunes(lastOp.key) \o ".meta"
        ELSE currentPathLocked(Get(uc)) # ""
                => metadataPathLocked(Get(uc)) = currentPathLocked(Get(uc)) \o ".meta"

\* The keys callers can pass: plain, with surrounding white space, with a
\* character that is made safe, and blank.
AllKeys == {"k1", " k1", "k2", "k/1", "k_1", " "}

\* LoadMetadata returned, from the sidecar, metadata that a cache constructed
\* with another call of NewUploadCache and a metadata key had saved.
LoadedAnothersSave ==
    /\ lastOp.op = "LoadMetadata"
    /\ lastOp.ok
    /\ lastOp.key # ""
    /\ IsSome(lastOp.saved)
    /\ Get(lastOp.saved).fresh
    /\ Get(lastOp.saved).key # ""
    /\ metadataPathLocked(Get(uc)) = Get(lastOp.saved).path

\* A cache constructed with a metadata key saved metadata, and the cache now
\* held was constructed afterwards, with a metadata key as well.
SavedThenConstructed ==
    /\ IsSome(uc)
    /\ lastOp.key # ""
    /\ IsSome(lastOp.saved)
    /\ Get(lastOp.saved).fresh
    /\ Get(lastOp.saved).key # ""

SafeName(key) == safeRunes(TrimSpace(key))

C39_MemoryMatchesSidecar ==
    (IsSome(uc) /\ IsSome(Get(uc).metadata)) =>
        LET path == metadataPathLocked(Get(uc))
        IN  /\ path # ""
            /\ IsSome(FileAt(files, path))
            /\ SameMetadata(UnmarshalJSON(Get(FileAt(files, path))), Get(Get(uc).metadata))

\* C36: the reader GetTaskPersistReadFunc returned is not nil, for a kind with
\* persistence and for one without, also when the kind's task_items row is
\* missing or the query for it failed.
C36_ReaderNeverNil ==
    IsSome(reader) => Get(reader).f.fn # "nil"


(***************************************************************************)
(* The order of a live listing (sortTasks).                                *)
(***************************************************************************)
\* How the chosen key ranks entry a against entry b: negative when a comes
\* first.  Strings byte-wise, states by their integers, progress from high
\* to low; an entry shows a NaN progress as 100.
EntryKeyCmp(a, b, orderBy) ==
    CASE orderBy = "creator" -> StrRank(a.Creator) - StrRank(b.Creator)
      [] orderBy = "state" -> a.State - b.State
      [] orderBy = "progress" -> b.Progress.v - a.Progress.v
      [] OTHER -> StrRank(a.Name) - StrRank(b.Name)

\* Entry a stands before entry b: by the key, by the ID where the keys tie,
\* and the other way round in a reversed listing.
EntryBefore(a, b, orderBy, reverse) ==
    LET byKey == EntryKeyCmp(a, b, orderBy)
        cmp == IF byKey = 0 THEN StrRank(a.ID) - StrRank(b.ID) ELSE byKey
    IN  IF reverse THEN cmp > 0 ELSE cmp < 0

ReverseSeq(seq) == [i \in 1..Len(seq) |-> seq[Len(seq) + 1 - i]]

\* C34: a listing sortTasks ordered stands in the order of the chosen key,
\* strings compared byte-wise, progress from high to low with NaN counted as
\* 100, every tie broken by task ID; sorting in reverse gives exactly the
\* reverse of the plain order; and of two tasks of a manager, whose IDs
\* differ, exactly one is less than the other.
C34_SortIsStrictTotalOrder ==
    (IsSome(req) /\ Listable(Get(req)) /\ IsSome(resp) /\ Get(resp).status = 200
        /\ ~Get(resp).indexed) =>
      LET query == parseTaskListQuery(Get(req))
          content == Get(resp).content
          tasks == GetAll(mgr)
      IN  /\ \A i, j \in 1..Len(content) :
                i < j => EntryBefore(content[i], content[j], query.orderBy,
                                     query.reverse)
          /\ \A a, b \in tasks :
                a # b => /\ sortLess(a, b, query.orderBy, query.reverse)
                                # sortLess(b, a, query.orderBy, query.reverse)
                         /\ sortLess(a, b, query.orderBy, TRUE)
                                = sortLess(b, a, query.orderBy, FALSE)
          /\ sortTasks(tasks, query.orderBy, TRUE)
                = ReverseSeq(sortTasks(tasks, query.orderBy, FALSE))

\* A live listing by progress is served in which a task without a progress
\* (NaN) ties with a task at 100 and stands first by its ID, before a task at 50.
C34_WitnessProgressTie ==
    /\ IsSome(req) /\ Listable(Get(req))
    /\ IsSome(resp) /\ Get(resp).status = 200 /\ ~Get(resp).indexed
    /\ parseTaskListQuery(Get(req)).orderBy = "progress"
    /\ ~parseTaskListQuery(Get(req)).reverse
    /\ Len(Get(resp).content) = 3
    /\ "c3" \in DOMAIN mgr.tasks /\ IsNaN(mgr.tasks["c3"].Progress)
    /\ [i \in 1..3 |-> Get(resp).content[i].ID] = <<"c3", "c4", "c5">>


(***************************************************************************)
(* The index after InitTaskManager (bootstrap/task.go).                    *)
(***************************************************************************)
\* InitTaskManager ran for the copy kind and has returned; refreshed tells
\* whether the refresh of the index went through.
InitReturned(refreshed) ==
    \E findOk \in BOOLEAN : RestartProcess("copy", findOk, refreshed)

\* The IDs of the tasks the manager holds.
ManagerIDs(m) == {t.ID : t \in GetAll(m)}

RECURSIVE SumOfLens(_)
SumOfLens(parts) ==
    IF parts = <<>> THEN 0 ELSE Head(parts).len + SumOfLens(Tail(parts))

\* C37: in a Put that reached commit, every part uploaded but the last has
\* PartSize bytes, the last has total - (n-1)*PartSize bytes, between 1 and
\* PartSize, the sizes add up to the size of the stream, and the MD5 list
\* handed to commit has one entry per part, in the order of the part numbers;
\* for an empty stream no part was uploaded and the list is empty.
C37_PartSizesAndMD5List ==
    (put.pc \in {"finish", "returned"} /\ "upCommit" \in Calls) =>
        LET n == Len(put.parts)
            last == stream.size - (n - 1) * put.partSize
        IN  /\ \A i \in 1..(n - 1) : put.parts[i].len = put.partSize
            /\ n > 0 => put.parts[n].len = last /\ last \in 1..put.partSize
            /\ SumOfLens(put.parts) = stream.size
            /\ put.md5s = [i \in 1..n |-> put.parts[i].n]
            /\ \A i \in 1..n : put.md5s[i] = i
            /\ stream.size = 0 => put.parts = <<>> /\ put.md5s = <<>>

\* Three bytes in parts of one were uploaded and their three MD5s committed,
\* and Put has returned.
C37_WitnessThreePartsCommitted ==
    /\ put.pc = "returned"
    /\ "upFinish" \in Calls
    /\ stream.size = 3
    /\ put.partSize = 1
    /\ Len(put.parts) = 3
    /\ put.md5s = <<1, 2, 3>>

====
